---- MODULE Spec2Model ----
(***************************************************************************)
(* A model of gogolfing/cli: the interspersed argument classifier          *)
(* (cli.ParseArgumentsInterspersed), command.Commander and                 *)
(* subcommand.SubCommander, over the standard library's flag.FlagSet.      *)
(*                                                                         *)
(* A token (one command line argument) is a sequence of one-character      *)
(* strings, so that the flag package's tests on the shape of an argument   *)
(* (its length, its leading minus signs, an embedded "=") are computed     *)
(* and not assumed.                                                        *)
(***************************************************************************)
EXTENDS Integers, Sequences, FiniteSets, TLC

(***************************************************************************)
(* Bounds of the model.                                                    *)
(***************************************************************************)
\* the longest argument list handed to ParseArgumentsInterspersed
MaxArgs == 5

\* the longest argument list handed to Commander.ExecuteContext
MaxCmdArgs == 3

\* the longest argument list handed to SubCommander.ExecuteContext
MaxSubArgs == 5

\* how many Register calls a SubCommander receives
MaxRegister == 3

\* the longest argument list a SubCommander under registration is run with
MaxDispatchArgs == 2

\* the longest argument list parsed under a ParameterFlagMode
MaxModeArgs == 4

\* the longest argument list a SubCommander with the help SubCommand is run with
MaxHelpArgs == 4

(***************************************************************************)
(* Tokens.                                                                 *)
(***************************************************************************)
DoubleMinus == <<"-", "-">>

TokA == <<"-", "a">>
TokB == <<"-", "b">>
TokS == <<"-", "s">>
TokH == <<"-", "h">>
TokU == <<"-", "u">>
TokX == <<"x">>
TokOne == <<"1">>
TokEmpty == <<>>
TokG == <<"-", "g">>
TokSub == <<"s", "u", "b">>
TokAlias == <<"s">>
TokHelp == <<"h", "e", "l", "p">>
TokList == <<"l", "i", "s", "t">>
TokLong == <<"s", "u", "b", "s", "u", "b", "s", "u", "b", "s", "u", "b", "s">>
TokY == <<"y">>
TokZ == <<"z">>

\* the arguments the classifier is driven with
ParseTokens == {TokA, TokB, TokS, DoubleMinus, TokX, TokOne, TokEmpty, TokH, TokU}

\* every argument list of at most n tokens of S
ArgLists(S, n) == UNION {[1..k -> S] : k \in 0..n}

(***************************************************************************)
(* Errors.  An error value is a record; NoErr is Go's nil error.           *)
(***************************************************************************)
Err(kind, name, value) == [kind |-> kind, name |-> name, value |-> value]

NoErr == Err("nil", <<>>, <<>>)

\* flag.ErrHelp, a sentinel compared by identity
ErrHelp == Err("flag: help requested", <<>>, <<>>)

(***************************************************************************)
(* The flag package: strconv, flag.Value.Set, FlagSet.parseOne, Parse.     *)
(***************************************************************************)
DigitChars == {"0", "1", "2", "3", "4", "5", "6", "7", "8", "9"}

DigitVal(c) ==
  CASE c = "0" -> 0 [] c = "1" -> 1 [] c = "2" -> 2 [] c = "3" -> 3
    [] c = "4" -> 4 [] c = "5" -> 5 [] c = "6" -> 6 [] c = "7" -> 7
    [] c = "8" -> 8 [] c = "9" -> 9

\* strconv.ParseInt(s, 0, 64) on decimal input: whether s is an integer
IsInt(s) ==
  LET digits == IF Len(s) > 0 /\ s[1] \in {"-", "+"} THEN Tail(s) ELSE s
  IN  Len(digits) > 0 /\ \A i \in 1..Len(digits) : digits[i] \in DigitChars

RECURSIVE DigitsToNat(_)
DigitsToNat(d) ==
  IF Len(d) = 0 THEN 0
  ELSE 10 * DigitsToNat(SubSeq(d, 1, Len(d) - 1)) + DigitVal(d[Len(d)])

Atoi(s) ==
  IF s[1] = "-" THEN 0 - DigitsToNat(Tail(s))
  ELSE IF s[1] = "+" THEN DigitsToNat(Tail(s))
  ELSE DigitsToNat(s)

BoolTrue == {<<"1">>, <<"t">>, <<"T">>, <<"t", "r", "u", "e">>,
             <<"T", "R", "U", "E">>, <<"T", "r", "u", "e">>}

BoolFalse == {<<"0">>, <<"f">>, <<"F">>, <<"f", "a", "l", "s", "e">>,
              <<"F", "A", "L", "S", "E">>, <<"F", "a", "l", "s", "e">>}

\* flag.Value.Set for the three kinds of flag the model declares
ValueOK(kind, value) ==
  CASE kind = "int" -> IsInt(value)
    [] kind = "bool" -> value \in BoolTrue \cup BoolFalse
    [] kind = "string" -> TRUE

ValueOf(kind, value) ==
  CASE kind = "int" -> Atoi(value)
    [] kind = "bool" -> value \in BoolTrue
    [] kind = "string" -> value

DefaultOf(kind) ==
  CASE kind = "int" -> 0
    [] kind = "bool" -> FALSE
    [] kind = "string" -> <<>>

\* flag.NewFlagSet: no flag declared, nothing parsed
EmptyFlagSet ==
  [formal |-> <<>>, dest |-> <<>>, vals |-> <<>>, actual |-> {}, args |-> <<>>,
   redefined |-> FALSE]

\* FlagSet.Var (through f.IntVar, f.BoolVar, f.StringVar): the destination
\* dest is given the default, then name is declared, bound to it; declaring
\* a name twice panics ("flag redefined"), recorded in redefined.
FlagVar(f, name, kind, dest) ==
  IF name \in DOMAIN f.formal
  THEN [f EXCEPT !.redefined = TRUE,
                 !.vals = (dest :> DefaultOf(kind)) @@ f.vals]
  ELSE [f EXCEPT !.formal = (name :> kind) @@ f.formal,
                 !.dest = (name :> dest) @@ f.dest,
                 !.vals = (dest :> DefaultOf(kind)) @@ f.vals]

\* the first index i >= 2 of name holding "=", or 0
EqualsIndex(name) ==
  LET idx == {i \in 2..Len(name) : name[i] = "="}
  IN  IF idx = {} THEN 0 ELSE CHOOSE i \in idx : \A j \in idx : i <= j

SetFlagValue(f, name, value) ==
  [f EXCEPT !.vals[f.dest[name]] = ValueOf(f.formal[name], value),
            !.actual = @ \cup {name}]

\* FlagSet.parseOne: [seen, err, f]
parseOne(f) ==
  IF Len(f.args) = 0 THEN [seen |-> FALSE, err |-> NoErr, f |-> f]
  ELSE
  LET s == f.args[1] IN
  IF Len(s) < 2 \/ s[1] # "-" THEN [seen |-> FALSE, err |-> NoErr, f |-> f]
  ELSE
  LET numMinuses == IF s[2] = "-" THEN 2 ELSE 1 IN
  IF numMinuses = 2 /\ Len(s) = 2
  THEN \* "--" terminates the flags
       [seen |-> FALSE, err |-> NoErr, f |-> [f EXCEPT !.args = Tail(@)]]
  ELSE
  LET name0 == SubSeq(s, numMinuses + 1, Len(s)) IN
  IF Len(name0) = 0 \/ name0[1] = "-" \/ name0[1] = "="
  THEN [seen |-> FALSE, err |-> Err("bad flag syntax", s, <<>>), f |-> f]
  ELSE
  LET eq == EqualsIndex(name0)
      hasValue0 == eq # 0
      name == IF hasValue0 THEN SubSeq(name0, 1, eq - 1) ELSE name0
      value0 == IF hasValue0 THEN SubSeq(name0, eq + 1, Len(name0)) ELSE <<>>
      f1 == [f EXCEPT !.args = Tail(@)]
  IN
  IF name \notin DOMAIN f1.formal
  THEN IF name = <<"h", "e", "l", "p">> \/ name = <<"h">>
       THEN [seen |-> FALSE, err |-> ErrHelp, f |-> f1]
       ELSE [seen |-> FALSE,
             err |-> Err("flag provided but not defined", name, <<>>), f |-> f1]
  ELSE
  IF f1.formal[name] = "bool"
  THEN LET value == IF hasValue0 THEN value0 ELSE <<"t", "r", "u", "e">> IN
       IF ValueOK("bool", value)
       THEN [seen |-> TRUE, err |-> NoErr, f |-> SetFlagValue(f1, name, value)]
       ELSE [seen |-> FALSE, err |-> Err("invalid boolean value", name, value), f |-> f1]
  ELSE
  LET takesNext == ~hasValue0 /\ Len(f1.args) > 0
      hasValue == hasValue0 \/ takesNext
      value == IF takesNext THEN f1.args[1] ELSE value0
      f2 == IF takesNext THEN [f1 EXCEPT !.args = Tail(@)] ELSE f1
  IN
  IF ~hasValue
  THEN [seen |-> FALSE, err |-> Err("flag needs an argument", name, <<>>), f |-> f2]
  ELSE IF ~ValueOK(f2.formal[name], value)
  THEN [seen |-> FALSE, err |-> Err("invalid value", name, value), f |-> f2]
  ELSE [seen |-> TRUE, err |-> NoErr, f |-> SetFlagValue(f2, name, value)]

\* the one element of a singleton set; {e(x) : x \in {v}} binds x to the
\* value of v, computed once
Only(S) == CHOOSE x \in S : TRUE

RECURSIVE parseLoop(_)
parseLoop(f) ==
  Only({IF r.seen THEN parseLoop(r.f) ELSE [err |-> r.err, f |-> r.f] :
        r \in {parseOne(f)}})

\* FlagSet.Parse with ContinueOnError: [err, f]; f.args is then f.Args()
Parse(f, arguments) == parseLoop([f EXCEPT !.args = arguments])

\* the variable a declaration binds its flag to: named as the flag, unless
\* the declaration names another
DestOf(d) == IF "dest" \in DOMAIN d THEN d.dest ELSE d.name

\* a FlagSetter's SetFlags: decl is the sequence of [name, kind] it declares,
\* each through a Var call that stores the default in the destination
RECURSIVE SetFlags(_, _)
SetFlags(f, decl) ==
  IF Len(decl) = 0 THEN f
  ELSE SetFlags(FlagVar(f, decl[1].name, decl[1].kind, DestOf(decl[1])), Tail(decl))

\* cli.NewFlagSet(name, fs): a fresh flag set on which fs declares its flags.
\* store holds the destinations the application's flags are bound to (they
\* outlive the flag set); a nil fs declares nothing.
NewFlagSet(store, decl) == SetFlags([EmptyFlagSet EXCEPT !.vals = store], decl)

\* cli.CountFlags
CountFlags(f) == Cardinality(DOMAIN f.formal)

(***************************************************************************)
(* cli.ParseArgumentsInterspersed (src/argparse.go).                       *)
(***************************************************************************)
\* the flags the classifier's flag set declares: -a int, -b bool, -s string
ParseFlagSet ==
  FlagVar(FlagVar(FlagVar(EmptyFlagSet, <<"a">>, "int", <<"a">>),
                  <<"b">>, "bool", <<"b">>),
          <<"s">>, "string", <<"s">>)

didStopAfterDoubleMinusNextToken(argv, remaining) ==
  Len(remaining) > 0 /\ remaining[1] = DoubleMinus

didStopAfterDoubleMinus(argv, remaining) ==
  Len(argv) > Len(remaining) /\ argv[Len(argv) - Len(remaining)] = DoubleMinus

\* the loop's condition
loopCondStopsAtEmpty(st) ==
  st.err = NoErr /\ Len(st.args) > 0 /\ st.args[1] # <<>>

loopCond(st) == st.err = NoErr /\ Len(st.args) > 0

afterParseDropsToken(st, r) ==
  IF r.err # NoErr
  THEN [st EXCEPT !.f = r.f, !.err = r.err]
  ELSE IF didStopAfterDoubleMinus(st.args, r.f.args)
  THEN [f |-> r.f, args |-> <<>>, params |-> st.params \o r.f.args, err |-> NoErr]
  ELSE IF Len(r.f.args) > 0
  THEN [f |-> r.f, args |-> Tail(r.f.args), params |-> st.params, err |-> NoErr]
  ELSE [f |-> r.f, args |-> r.f.args, params |-> st.params, err |-> NoErr]

afterParseKeepsToken(st, r) ==
  IF r.err # NoErr
  THEN [st EXCEPT !.f = r.f, !.err = r.err]
  ELSE IF didStopAfterDoubleMinus(st.args, r.f.args)
  THEN [f |-> r.f, args |-> <<>>, params |-> st.params \o r.f.args, err |-> NoErr]
  ELSE IF Len(r.f.args) > 0
  THEN [f |-> r.f, args |-> r.f.args,
        params |-> Append(st.params, r.f.args[1]), err |-> NoErr]
  ELSE [f |-> r.f, args |-> r.f.args, params |-> st.params, err |-> NoErr]

\* the rest of an iteration, r = [err, f] being what f.Parse(args) gave
afterParse(st, r) ==
  IF r.err # NoErr
  THEN [st EXCEPT !.f = r.f, !.err = r.err]
  ELSE IF didStopAfterDoubleMinus(st.args, r.f.args)
  THEN [f |-> r.f, args |-> <<>>, params |-> st.params \o r.f.args, err |-> NoErr]
  ELSE IF Len(r.f.args) > 0
  THEN [f |-> r.f, args |-> Tail(r.f.args),
        params |-> Append(st.params, r.f.args[1]), err |-> NoErr]
  ELSE [f |-> r.f, args |-> r.f.args, params |-> st.params, err |-> NoErr]

\* one iteration of the loop, on st = [f, args, params, err]
loopBody(st) == Only({afterParse(st, r) : r \in {Parse(st.f, st.args)}})

\* what the function returns once the loop has ended: a nil slice on error
returnParamsKeep(st) == [params |-> st.params, isNil |-> FALSE]

returnParams(st) ==
  IF st.err # NoErr
  THEN [params |-> <<>>, isNil |-> TRUE]
  ELSE [params |-> st.params, isNil |-> FALSE]

RECURSIVE runLoop(_)
runLoop(st) ==
  IF loopCond(st) THEN Only({runLoop(next) : next \in {loopBody(st)}}) ELSE st

\* the whole call: [params, isNil, err, f], f being the flag set as it is left
ParseArgumentsInterspersed(f, argv) ==
  LET st == runLoop([f |-> f, args |-> argv, params |-> <<>>, err |-> NoErr])
      r == returnParams(st)
  IN  [params |-> r.params, isNil |-> r.isNil, err |-> st.err, f |-> st.f]

(***************************************************************************)
(* command.Commander (src/unnamed/part_003, lines 307-478).                *)
(***************************************************************************)
\* a returned error: nil, or a wrapper type around an inner error
Wrapped(type, e) == [type |-> type, err |-> e]

NilError == Wrapped("nil", NoErr)

\* errors the application's callbacks return
ErrParameter == Err("parameter error", <<>>, <<>>)

ErrExecute == Err("error executing", <<>>, <<>>)

\* an error of the application's with the text of flag.ErrHelp: another value
ErrHelpText == Err("flag: help requested", <<"errors.New">>, <<>>)

\* what Command.SetParameters and Command.Execute may return
SetParametersResults == {NoErr, ErrParameter, ErrHelp, ErrHelpText}

ExecuteResults == {NoErr, ErrExecute}

\* the arguments a Commander is run with
CmdTokens == {TokA, TokOne, TokX, DoubleMinus, TokH}

\* the Commands: with or without a description, flags (-a int, -b bool)
\* and a parameter
CmdConfigs == [desc : BOOLEAN, flags : BOOLEAN, hasParams : BOOLEAN]

CmdFlagDecl(cfg) ==
  IF cfg.flags
  THEN <<[name |-> <<"a">>, kind |-> "int"], [name |-> <<"b">>, kind |-> "bool"]>>
  ELSE <<>>

\* an entry of the log of calls made on the Command or SubCommand
Call(op, who, params, result) ==
  [op |-> op, who |-> who, params |-> params, result |-> result]

\* a piece of output
Seg(kind, what) == [seg |-> kind, what |-> what]

\* Commander.getCommandLineUsage: the argument groups of the usage line
cmdGetCommandLineUsage(cfg) ==
  (IF CountFlags(NewFlagSet(<<>>, CmdFlagDecl(cfg))) > 0 THEN <<"options">> ELSE <<>>)
  \o (IF cfg.hasParams THEN <<"parameters">> ELSE <<>>)

\* Commander.hasOptions
cmdHasOptions(cfg) == CountFlags(NewFlagSet(<<>>, CmdFlagDecl(cfg))) > 0

\* Commander.printCommandError: what it writes
cmdPrintCommandError(cfg, e, description) ==
  (IF e # NoErr THEN <<Seg("error", e)>> ELSE <<>>)
  \o (IF description /\ cfg.desc THEN <<Seg("header", <<>>)>> ELSE <<>>)
  \o <<Seg("usage", cmdGetCommandLineUsage(cfg))>>
  \o (IF cmdHasOptions(cfg) THEN <<Seg("options", <<>>)>> ELSE <<>>)
  \o (IF cfg.hasParams THEN <<Seg("parameters", <<>>)>> ELSE <<>>)

\* the SetFlags calls printCommandError makes: cmdGetCommandLineUsage,
\* hasOptions and, with options, GetFlagSetDefaults each build a flag set
cmdPrintCommandErrorCalls(cfg) ==
  <<Call("SetFlags", "command", <<>>, NoErr), Call("SetFlags", "command", <<>>, NoErr)>>
  \o (IF cmdHasOptions(cfg) THEN <<Call("SetFlags", "command", <<>>, NoErr)>> ELSE <<>>)

\* Commander.executeContext once ParseArgumentsInterspersed has returned r
cmdAfterClassifyNoReturn(c, r) ==
  [c EXCEPT !.pc = "classified", !.store = r.f.vals,
            !.params = [params |-> r.params, isNil |-> r.isNil]]

cmdAfterClassify(c, r) ==
  IF r.err # NoErr
  THEN [c EXCEPT !.pc = "returned", !.store = r.f.vals,
                 !.err = Wrapped("*ParsingCommandError", r.err)]
  ELSE [c EXCEPT !.pc = "classified", !.store = r.f.vals,
                 !.params = [params |-> r.params, isNil |-> r.isNil]]

\* Commander.executeContext up to the classification of the arguments
cmdClassify(c) ==
  Only({cmdAfterClassify([c EXCEPT !.calls = Append(@, Call("SetFlags", "command", <<>>, NoErr))], r) :
        r \in {ParseArgumentsInterspersed(NewFlagSet(c.store, CmdFlagDecl(c.cfg)), c.args)}})

\* c.SetParameters(params), returning e
cmdSetParametersIgnoresError(c, e) ==
  [c EXCEPT !.pc = "parametersSet",
            !.calls = Append(@, Call("SetParameters", "command", c.params.params, e))]

cmdSetParameters(c, e) ==
  LET called == Append(c.calls, Call("SetParameters", "command", c.params.params, e))
  IN  IF e # NoErr
      THEN [c EXCEPT !.pc = "returned", !.calls = called,
                     !.err = Wrapped("*ParsingCommandError", e)]
      ELSE [c EXCEPT !.pc = "parametersSet", !.calls = called]

\* command.IsExecutionError
cmdIsExecutionError(e) == e.type = "*ExecutingCommandError"

\* c.Command.Execute(ctx, in, out, outErr), returning e
cmdExecuteWrapsAsParsing(c, e) ==
  [c EXCEPT !.pc = "returned",
            !.calls = Append(@, Call("Execute", "command", <<>>, e)),
            !.err = IF e # NoErr THEN Wrapped("*ParsingCommandError", e) ELSE NilError]

cmdExecute(c, e) ==
  [c EXCEPT !.pc = "returned",
            !.calls = Append(@, Call("Execute", "command", <<>>, e)),
            !.err = IF e # NoErr THEN Wrapped("*ExecutingCommandError", e) ELSE NilError]

\* Commander.ExecuteContext once executeContext has returned
cmdReportHelpByText(c) ==
  IF c.err.type = "*ParsingCommandError"
  THEN LET help == c.err.err.kind = ErrHelp.kind
           written == IF help THEN cmdPrintCommandError(c.cfg, NoErr, TRUE)
                      ELSE cmdPrintCommandError(c.cfg, c.err.err, FALSE)
       IN  [c EXCEPT !.pc = "done", !.outErr = @ \o written,
                     !.calls = @ \o cmdPrintCommandErrorCalls(c.cfg),
                     !.store = NewFlagSet(@, CmdFlagDecl(c.cfg)).vals]
  ELSE [c EXCEPT !.pc = "done"]

cmdReport(c) ==
  IF c.err.type = "*ParsingCommandError"
  THEN LET help == c.err.err = ErrHelp
           written == IF help THEN cmdPrintCommandError(c.cfg, NoErr, TRUE)
                      ELSE cmdPrintCommandError(c.cfg, c.err.err, FALSE)
       IN  [c EXCEPT !.pc = "done", !.outErr = @ \o written,
                     !.calls = @ \o cmdPrintCommandErrorCalls(c.cfg),
                     !.store = NewFlagSet(@, CmdFlagDecl(c.cfg)).vals]
  ELSE [c EXCEPT !.pc = "done"]

\* a Commander no run of which has started
CmdIdle ==
  [pc |-> "idle", cfg |-> [desc |-> FALSE, flags |-> FALSE, hasParams |-> FALSE],
   args |-> <<>>, store |-> <<>>, params |-> [params |-> <<>>, isNil |-> TRUE],
   err |-> NilError, calls |-> <<>>, outErr |-> <<>>]

(***************************************************************************)
(* subcommand.SubCommander (src/unnamed/part_012, lines 257-826).          *)
(***************************************************************************)
\* the SubCommands an application registers.  A is the usual one: name
\* "sub", alias "s", a string flag -s.  B has A's name and no alias, C has
\* A's name as an alias, D has C's name and A's alias.  E declares a flag
\* named as the global flag, bound to a variable of its own, and gives its
\* aliases "z" and "y" in that order.  F has a name of 13 bytes.  H is the
\* helpSubCommand RegisterHelp registers under the name "help", L the
\* listSubCommand RegisterList registers under the name "list".
SubCommands ==
  [A |-> [name |-> TokSub, aliases |-> <<TokAlias>>,
          decl |-> <<[name |-> <<"s">>, kind |-> "string"]>>,
          desc |-> TRUE, hasParams |-> TRUE],
   B |-> [name |-> TokSub, aliases |-> <<>>, decl |-> <<>>,
          desc |-> FALSE, hasParams |-> FALSE],
   C |-> [name |-> TokX, aliases |-> <<TokSub>>, decl |-> <<>>,
          desc |-> FALSE, hasParams |-> TRUE],
   D |-> [name |-> TokX, aliases |-> <<TokAlias>>,
          decl |-> <<[name |-> <<"s">>, kind |-> "string"]>>,
          desc |-> TRUE, hasParams |-> FALSE],
   E |-> [name |-> TokX, aliases |-> <<TokZ, TokY>>,
          decl |-> <<[name |-> <<"g">>, kind |-> "int", dest |-> <<"e", "g">>]>>,
          desc |-> FALSE, hasParams |-> TRUE],
   F |-> [name |-> TokLong, aliases |-> <<>>, decl |-> <<>>,
          desc |-> FALSE, hasParams |-> FALSE],
   H |-> [name |-> TokHelp, aliases |-> <<>>, decl |-> <<>>,
          desc |-> TRUE, hasParams |-> TRUE],
   L |-> [name |-> TokList, aliases |-> <<>>, decl |-> <<>>,
          desc |-> TRUE, hasParams |-> FALSE]]

SubCommandIds == DOMAIN SubCommands

\* the helpSubCommand
HelpId == "H"

\* the listSubCommand
ListId == "L"

\* a nil SubCommand
NoSub == "nil"

\* SubCommander.GlobalFlags: -g int
GlobalDecl == <<[name |-> <<"g">>, kind |-> "int"]>>

\* a SubCommander with nothing registered
NewSubCommander(disallow) ==
  [names |-> <<>>, aliases |-> <<>>,
   DisallowGlobalFlagsWithSubCommand |-> disallow]

RECURSIVE registerAliases(_, _, _)
registerAliases(aliases, list, id) ==
  IF Len(list) = 0 THEN aliases
  ELSE registerAliases((list[1] :> id) @@ aliases, Tail(list), id)

\* SubCommander.Register
RegisterDropsReplaced(sc, id) ==
  LET name == SubCommands[id].name
      old == IF name \in DOMAIN sc.names THEN sc.names[name] ELSE NoSub
      kept == {k \in DOMAIN sc.aliases : sc.aliases[k] # old}
  IN  [sc EXCEPT !.names = (name :> id) @@ @,
                 !.aliases = registerAliases([k \in kept |-> sc.aliases[k]],
                                             SubCommands[id].aliases, id)]

Register(sc, id) ==
  [sc EXCEPT !.names = (SubCommands[id].name :> id) @@ @,
             !.aliases = registerAliases(@, SubCommands[id].aliases, id)]

\* SubCommander.getSubCommand
getSubCommandAliasesFirst(sc, name) ==
  IF name \in DOMAIN sc.aliases THEN sc.aliases[name]
  ELSE IF name \in DOMAIN sc.names THEN sc.names[name]
  ELSE NoSub

getSubCommand(sc, name) ==
  IF name \in DOMAIN sc.names THEN sc.names[name]
  ELSE IF name \in DOMAIN sc.aliases THEN sc.aliases[name]
  ELSE NoSub

ErrUnsuppliedSubCommand ==
  Wrapped("ErrUnsuppliedSubCommand", Err("sub_command not supplied", <<>>, <<>>))

UnknownSubCommandError(name) ==
  Wrapped("UnknownSubCommandError", Err("unknown sub_command", name, <<>>))

\* a run of ExecuteContext that has not started
RunIdle ==
  [pc |-> "idle", args |-> <<>>, f |-> EmptyFlagSet, store |-> <<>>,
   rest |-> <<>>, name |-> <<>>, sub |-> NoSub,
   params |-> [params |-> <<>>, isNil |-> TRUE],
   err |-> NilError, calls |-> <<>>, out |-> <<>>, outErr |-> <<>>]

subAfterGlobalParseIgnoresError(r0, r) ==
  [r0 EXCEPT !.pc = "globalsParsed", !.f = r.f, !.store = r.f.vals]

\* executeContext, lines 456-459: the global flags are parsed; r = [err, f]
\* is what f.Parse(args) gave
subAfterGlobalParse(r0, r) ==
  IF r.err # NoErr
  THEN [r0 EXCEPT !.pc = "returned", !.f = r.f, !.store = r.f.vals,
                  !.err = Wrapped("*ParsingGlobalArgsError", r.err)]
  ELSE [r0 EXCEPT !.pc = "globalsParsed", !.f = r.f, !.store = r.f.vals]

subParseGlobals(sc, r0) ==
  Only({subAfterGlobalParse(
          [r0 EXCEPT !.calls = Append(@, Call("SetFlags", "global", <<>>, NoErr))], r) :
        r \in {Parse(NewFlagSet(r0.store, GlobalDecl), r0.args)}})

\* executeContext, lines 461-471: the name is taken and resolved
subResolveKeepsName(sc, r0) ==
  LET argv == r0.f.args IN
  IF Len(argv) = 0
  THEN [r0 EXCEPT !.pc = "returned", !.err = ErrUnsuppliedSubCommand]
  ELSE IF getSubCommand(sc, argv[1]) = NoSub
  THEN [r0 EXCEPT !.pc = "returned", !.name = argv[1], !.rest = argv,
                  !.err = UnknownSubCommandError(argv[1])]
  ELSE [r0 EXCEPT !.pc = "resolved", !.name = argv[1], !.rest = argv,
                  !.sub = getSubCommand(sc, argv[1])]

subResolveEmptyIsUnknown(sc, r0) ==
  LET argv == r0.f.args
      name == IF Len(argv) = 0 THEN <<>> ELSE argv[1]
  IN  IF getSubCommand(sc, name) = NoSub
      THEN [r0 EXCEPT !.pc = "returned", !.name = name,
                      !.err = UnknownSubCommandError(name)]
      ELSE [r0 EXCEPT !.pc = "resolved", !.name = name, !.rest = Tail(argv),
                      !.sub = getSubCommand(sc, name)]

subResolve(sc, r0) ==
  LET argv == r0.f.args IN
  IF Len(argv) = 0
  THEN [r0 EXCEPT !.pc = "returned", !.err = ErrUnsuppliedSubCommand]
  ELSE IF getSubCommand(sc, argv[1]) = NoSub
  THEN [r0 EXCEPT !.pc = "returned", !.name = argv[1], !.rest = Tail(argv),
                  !.err = UnknownSubCommandError(argv[1])]
  ELSE [r0 EXCEPT !.pc = "resolved", !.name = argv[1], !.rest = Tail(argv),
                  !.sub = getSubCommand(sc, argv[1])]

\* parseSubCommandArgs, lines 509-515: the flag set the subcommand's
\* arguments are parsed with
subFlagSetAlwaysFresh(sc, r0) ==
  SetFlags(NewFlagSet(r0.store, <<>>), SubCommands[r0.sub].decl)

subFlagSetRedeclaresGlobals(sc, r0) ==
  SetFlags(NewFlagSet(r0.store, GlobalDecl), SubCommands[r0.sub].decl)

subFlagSet(sc, r0) ==
  SetFlags(IF sc.DisallowGlobalFlagsWithSubCommand
           THEN NewFlagSet(r0.store, <<>>)
           ELSE r0.f,
           SubCommands[r0.sub].decl)

\* parseSubCommandArgs, lines 517-520, and executeSubCommand, lines 495-498
subAfterClassify(r0, r) ==
  IF r.err # NoErr
  THEN [r0 EXCEPT !.pc = "returned", !.f = r.f, !.store = r.f.vals,
                  !.err = Wrapped("*ParsingSubCommandError", r.err)]
  ELSE [r0 EXCEPT !.pc = "classified", !.f = r.f, !.store = r.f.vals,
                  !.params = [params |-> r.params, isNil |-> r.isNil]]

subParseSubCommandArgsRecovers(sc, r0) ==
  Only({IF f.redefined
        THEN [r0 EXCEPT !.pc = "returned", !.f = f,
                        !.calls = Append(@, Call("SetFlags", r0.sub, <<>>, NoErr)),
                        !.err = Wrapped("*ParsingSubCommandError",
                                        Err("flag redefined", <<>>, <<>>))]
        ELSE Only({subAfterClassify(
                     [r0 EXCEPT !.calls = Append(@, Call("SetFlags", r0.sub, <<>>, NoErr))], r) :
                   r \in {ParseArgumentsInterspersed(f, r0.rest)}}) :
        f \in {subFlagSet(sc, r0)}})

\* a flag declared twice panics out of ExecuteContext
subParseSubCommandArgs(sc, r0) ==
  Only({IF f.redefined
        THEN [r0 EXCEPT !.pc = "panicked", !.f = f,
                        !.calls = Append(@, Call("SetFlags", r0.sub, <<>>, NoErr))]
        ELSE Only({subAfterClassify(
                     [r0 EXCEPT !.calls = Append(@, Call("SetFlags", r0.sub, <<>>, NoErr))], r) :
                   r \in {ParseArgumentsInterspersed(f, r0.rest)}}) :
        f \in {subFlagSet(sc, r0)}})

\* parseSubCommandArgs, line 522, and executeSubCommand, lines 495-498:
\* subCommand.SetParameters(params) returns e
subSetParametersIgnoresError(r0, e) ==
  [r0 EXCEPT !.pc = "parametersSet",
             !.calls = Append(@, Call("SetParameters", r0.sub, r0.params.params, e))]

subSetParameters(r0, e) ==
  LET called == Append(r0.calls, Call("SetParameters", r0.sub, r0.params.params, e))
  IN  IF e # NoErr
      THEN [r0 EXCEPT !.pc = "returned", !.calls = called,
                      !.err = Wrapped("*ParsingSubCommandError", e)]
      ELSE [r0 EXCEPT !.pc = "parametersSet", !.calls = called]

\* subcommand.IsExecutionError
subIsExecutionError(e) == e.type = "*ExecutingSubCommandError"

\* executeSubCommand, lines 500-505: subCommand.Execute returns e
subExecute(r0, e) ==
  [r0 EXCEPT !.pc = "returned",
             !.calls = Append(@, Call("Execute", r0.sub, <<>>, e)),
             !.err = IF e # NoErr THEN Wrapped("*ExecutingSubCommandError", e)
                     ELSE NilError]

\* SubCommander.hasGlobalOptions
hasGlobalOptions(sc) == CountFlags(NewFlagSet(<<>>, GlobalDecl)) > 0

\* whether the subcommand declares flags
hasSubCommandOptions(id) == CountFlags(NewFlagSet(<<>>, SubCommands[id].decl)) > 0

\* SubCommander.getSubCommandLineUsage: the argument groups; id may be NoSub
getSubCommandLineUsage(sc, id, globals) ==
  (IF globals /\ hasGlobalOptions(sc) /\ ~sc.DisallowGlobalFlagsWithSubCommand
   THEN <<"global_options">> ELSE <<>>)
  \o (IF id = NoSub \/ hasSubCommandOptions(id)
      THEN <<"sub_command_options">> ELSE <<>>)
  \o (IF id = NoSub \/ SubCommands[id].hasParams THEN <<"parameters">> ELSE <<>>)

\* the bytes of the names and aliases, in ascending order
Bytes == <<"b", "e", "h", "i", "l", "p", "s", "t", "u", "x", "y", "z">>

Byte(c) == CHOOSE i \in DOMAIN Bytes : Bytes[i] = c

\* Go's a < b on strings
RECURSIVE LessString(_, _)
LessString(a, b) ==
  IF b = <<>> THEN FALSE
  ELSE IF a = <<>> THEN TRUE
  ELSE IF Head(a) # Head(b) THEN Byte(Head(a)) < Byte(Head(b))
  ELSE LessString(Tail(a), Tail(b))

\* sort.Strings
RECURSIVE SortStrings(_)
SortStrings(list) ==
  IF list = <<>> THEN <<>>
  ELSE LET m == CHOOSE i \in DOMAIN list :
                  \A j \in DOMAIN list : ~LessString(list[j], list[i])
       IN  <<list[m]>> \o SortStrings([k \in 1..(Len(list) - 1) |->
                                        IF k < m THEN list[k] ELSE list[k + 1]])

\* cli.GetJoinedNameSortedAliases on the memory of the caller: joined is the
\* name, then the aliases sorted; aliases is the caller's slice after the call
joinNameSortedAliases(name, aliases) ==
  LET toSort == aliases
  IN  [joined |-> <<name>> \o SortStrings(toSort), aliases |-> aliases]

\* cli.GetJoinedNameSortedAliases: what it returns
GetJoinedNameSortedAliases(name, aliases) == joinNameSortedAliases(name, aliases).joined

\* len of strings.Join(list, ", ")
RECURSIVE JoinedLen(_)
JoinedLen(list) ==
  IF list = <<>> THEN 0
  ELSE IF Len(list) = 1 THEN Len(list[1])
  ELSE Len(list[1]) + 2 + JoinedLen(Tail(list))

\* SubCommander.sortedSubCommandNames: keys is the set of the names
RECURSIVE sortedSubCommandNamesUnsorted(_)
sortedSubCommandNamesUnsorted(keys) ==
  IF keys = {} THEN <<>>
  ELSE LET m == CHOOSE x \in keys : \A y \in keys : ~LessString(x, y)
       IN  <<m>> \o sortedSubCommandNamesUnsorted(keys \ {m})

RECURSIVE sortedSubCommandNames(_)
sortedSubCommandNames(keys) ==
  IF keys = {} THEN <<>>
  ELSE LET m == CHOOSE x \in keys : \A y \in keys : ~LessString(y, x)
       IN  <<m>> \o sortedSubCommandNames(keys \ {m})

\* maxLen of the joined entries
maxLen(entries) ==
  IF entries = <<>> THEN 0
  ELSE LET lens == {JoinedLen(entries[i]) : i \in DOMAIN entries}
       IN  CHOOSE n \in lens : \A k \in lens : k <= n

\* int(math.Max(16, float64(maxLen(allNameAliases) + 4)))
padWidthNoMargin(entries) == IF maxLen(entries) > 16 THEN maxLen(entries) ELSE 16

padWidth(entries) == IF maxLen(entries) + 4 > 16 THEN maxLen(entries) + 4 ELSE 16

\* padRight: the number of spaces it returns; make([]byte, count) panics on
\* a negative count
padRight(count, entry) == count - JoinedLen(entry)

\* SubCommander.getAvailableSubCommandsUsage: the lines after the title, each
\* an entry, its padding and the synopsis of the SubCommand; aliases is the
\* SubCommand's slice of aliases after the call
getAvailableSubCommandsUsage(sc) ==
  LET names == sortedSubCommandNames(DOMAIN sc.names)
      joins == [i \in DOMAIN names |->
                  joinNameSortedAliases(SubCommands[sc.names[names[i]]].name,
                                        SubCommands[sc.names[names[i]]].aliases)]
      allNameAliases == [i \in DOMAIN names |-> joins[i].joined]
      pad == padWidth(allNameAliases)
  IN  [i \in DOMAIN names |->
         [entry |-> allNameAliases[i],
          pad |-> padRight(pad, allNameAliases[i]),
          synopsis |-> sc.names[names[i]],
          aliases |-> joins[i].aliases]]

\* SubCommander.printCommandError: what it writes
printCommandError(sc, e, globals) ==
  (IF e # NilError THEN <<Seg("error", e.err)>> ELSE <<>>)
  \o <<Seg("usage",
           (IF hasGlobalOptions(sc) THEN <<"global_options">> ELSE <<>>)
           \o <<"sub_command">> \o getSubCommandLineUsage(sc, NoSub, TRUE))>>
  \o (IF globals /\ hasGlobalOptions(sc) THEN <<Seg("global_options", <<>>)>> ELSE <<>>)
  \o (IF DOMAIN sc.names # {}
      THEN <<Seg("sub_commands", getAvailableSubCommandsUsage(sc))>> ELSE <<>>)

\* the SetFlags calls printCommandError makes
printCommandErrorCalls(sc, globals) ==
  <<Call("SetFlags", "global", <<>>, NoErr), Call("SetFlags", "global", <<>>, NoErr)>>
  \o (IF globals THEN <<Call("SetFlags", "global", <<>>, NoErr)>> ELSE <<>>)

\* printSubCommandHeaderDescription
printSubCommandHeaderDescription(id) ==
  <<Seg("header", [names |-> GetJoinedNameSortedAliases(SubCommands[id].name,
                                                        SubCommands[id].aliases),
                   description |-> SubCommands[id].desc])>>

\* SubCommander.printSubCommandError: what it writes; e is the error as
\* ExecuteContext passes it, the wrapper or nil
printSubCommandError(sc, e, globals, id) ==
  (IF e # NilError
   THEN IF e = ErrHelp THEN printSubCommandHeaderDescription(id)
        ELSE <<Seg("error", e.err)>>
   ELSE <<>>)
  \o <<Seg("usage", <<"...", SubCommands[id].name>>
                    \o getSubCommandLineUsage(sc, id, globals))>>
  \o (IF globals /\ hasGlobalOptions(sc) /\ ~sc.DisallowGlobalFlagsWithSubCommand
      THEN <<Seg("global_options", <<>>)>> ELSE <<>>)
  \o (IF hasSubCommandOptions(id) THEN <<Seg("sub_command_options", <<>>)>> ELSE <<>>)
  \o (IF SubCommands[id].hasParams THEN <<Seg("parameters", <<>>)>> ELSE <<>>)

\* the SetFlags calls printSubCommandError makes: getSubCommandUsageStats
\* twice, then the two options sections
printSubCommandErrorCalls(sc, globals, id) ==
  <<Call("SetFlags", "global", <<>>, NoErr), Call("SetFlags", id, <<>>, NoErr),
    Call("SetFlags", "global", <<>>, NoErr), Call("SetFlags", id, <<>>, NoErr)>>
  \o (IF globals /\ hasGlobalOptions(sc) /\ ~sc.DisallowGlobalFlagsWithSubCommand
      THEN <<Call("SetFlags", "global", <<>>, NoErr)>> ELSE <<>>)
  \o (IF hasSubCommandOptions(id) THEN <<Call("SetFlags", id, <<>>, NoErr)>> ELSE <<>>)

\* cli.ErrTooManyParameters and *cli.RequiredParameterNotSetError
ErrTooManyParameters == Err("too many parameters", <<>>, <<>>)

RequiredParameterNotSetError(name) == Err("required parameter not set", name, <<>>)

\* helpSubCommand.SetParameters: what it returns; the one parameter is kept
\* as h.helpSubCommandName
helpSetParametersAcceptsMany(params) ==
  IF Len(params) = 0 THEN RequiredParameterNotSetError(<<"sub_command">>)
  ELSE NoErr

helpSetParameters(params) ==
  IF Len(params) > 1 THEN ErrTooManyParameters
  ELSE IF Len(params) = 0 THEN RequiredParameterNotSetError(<<"sub_command">>)
  ELSE NoErr

\* listSubCommand.SetParameters: what it returns
listSetParameters(params) ==
  IF Len(params) > 0 THEN ErrTooManyParameters ELSE NoErr

\* what SetParameters of the resolved SubCommand may return
subSetParametersResults(r0) ==
  IF r0.sub = HelpId THEN {helpSetParameters(r0.params.params)}
  ELSE IF r0.sub = ListId THEN {listSetParameters(r0.params.params)}
  ELSE SetParametersResults

\* listSubCommand.Execute called by executeSubCommand: the listing goes to out
listExecute(sc, r0) ==
  [subExecute(r0, NoErr) EXCEPT
     !.out = @ \o <<Seg("sub_commands", getAvailableSubCommandsUsage(sc))>>]

\* helpSubCommand.Execute called by executeSubCommand: the help of the named
\* SubCommand goes to out, an unknown name is reported on outErr and returned
helpExecuteNamesOnly(sc, r0) ==
  LET name == r0.params.params[1]
      target == IF name \in DOMAIN sc.names THEN sc.names[name] ELSE NoSub
  IN  IF target = NoSub
      THEN [subExecute(r0, UnknownSubCommandError(name)) EXCEPT
              !.outErr = @ \o printCommandError(sc, UnknownSubCommandError(name), FALSE),
              !.calls = @ \o printCommandErrorCalls(sc, FALSE),
              !.store = NewFlagSet(@, GlobalDecl).vals]
      ELSE [subExecute(r0, NoErr) EXCEPT
              !.out = @ \o printSubCommandError(sc, ErrHelp, target \notin {HelpId, ListId}, target),
              !.calls = @ \o printSubCommandErrorCalls(sc, target \notin {HelpId, ListId}, target),
              !.store = NewFlagSet(NewFlagSet(@, GlobalDecl).vals,
                                   SubCommands[target].decl).vals]

helpExecute(sc, r0) ==
  LET name == r0.params.params[1]
      target == getSubCommand(sc, name)
  IN  IF target = NoSub
      THEN [subExecute(r0, UnknownSubCommandError(name)) EXCEPT
              !.outErr = @ \o printCommandError(sc, UnknownSubCommandError(name), FALSE),
              !.calls = @ \o printCommandErrorCalls(sc, FALSE),
              !.store = NewFlagSet(@, GlobalDecl).vals]
      ELSE [subExecute(r0, NoErr) EXCEPT
              !.out = @ \o printSubCommandError(sc, ErrHelp, target \notin {HelpId, ListId}, target),
              !.calls = @ \o printSubCommandErrorCalls(sc, target \notin {HelpId, ListId}, target),
              !.store = NewFlagSet(NewFlagSet(@, GlobalDecl).vals,
                                   SubCommands[target].decl).vals]

\* SubCommander.ExecuteContext, lines 414-453, once executeContext has
\* returned: the error and help output
subReport(sc, r0) ==
  LET e == r0.err IN
  IF e = NilError THEN [r0 EXCEPT !.pc = "done"]
  ELSE IF e.type = "*ParsingGlobalArgsError"
  THEN [r0 EXCEPT !.pc = "done",
          !.outErr = @ \o printCommandError(sc, IF e.err = ErrHelp THEN NilError ELSE e, TRUE),
          !.calls = @ \o printCommandErrorCalls(sc, TRUE),
          !.store = NewFlagSet(@, GlobalDecl).vals]
  ELSE IF e = ErrUnsuppliedSubCommand \/ e.type = "UnknownSubCommandError"
  THEN [r0 EXCEPT !.pc = "done",
          !.outErr = @ \o printCommandError(sc, e, FALSE),
          !.calls = @ \o printCommandErrorCalls(sc, FALSE),
          !.store = NewFlagSet(@, GlobalDecl).vals]
  ELSE IF e.type = "*ParsingSubCommandError"
  THEN [r0 EXCEPT !.pc = "done",
          !.outErr = @ \o (IF e.err = ErrHelp
                           THEN printSubCommandHeaderDescription(r0.sub)
                                \o printSubCommandError(sc, NilError, TRUE, r0.sub)
                           ELSE printSubCommandError(sc, e, TRUE, r0.sub)),
          !.calls = @ \o printSubCommandErrorCalls(sc, TRUE, r0.sub),
          !.store = NewFlagSet(NewFlagSet(@, GlobalDecl).vals,
                               SubCommands[r0.sub].decl).vals]
  ELSE [r0 EXCEPT !.pc = "done"]

\* SubCommander.ExecuteContext from r0 to its return, SetParameters
\* returning eSet and Execute returning eExec if they are called
RECURSIVE executeFrom(_, _, _, _)
executeFrom(s, r0, eSet, eExec) ==
  IF r0.pc \in {"done", "panicked"} THEN r0
  ELSE Only({executeFrom(s, next, eSet, eExec) :
             next \in {CASE r0.pc = "start" -> subParseGlobals(s, r0)
                         [] r0.pc = "globalsParsed" -> subResolve(s, r0)
                         [] r0.pc = "resolved" -> subParseSubCommandArgs(s, r0)
                         [] r0.pc = "classified" ->
                              subSetParameters(r0, IF r0.sub \in {HelpId, ListId}
                                                   THEN CHOOSE e \in subSetParametersResults(r0) : TRUE
                                                   ELSE eSet)
                         [] r0.pc = "parametersSet" ->
                              IF r0.sub = HelpId THEN helpExecute(s, r0)
                              ELSE IF r0.sub = ListId THEN listExecute(s, r0)
                              ELSE subExecute(r0, eExec)
                         [] r0.pc = "returned" -> subReport(s, r0)}})

ExecuteContext(s, args, eSet, eExec) ==
  executeFrom(s, [RunIdle EXCEPT !.pc = "start", !.args = args], eSet, eExec)

(***************************************************************************)
(* cli.SubCommander (src/subcommander.go): the arguments of a subcommand   *)
(* parsed by ParameterFlagMode.                                            *)
(***************************************************************************)
ParameterFlagModes == {"ModeInterspersed", "ModeFlagsFirst", "ModeParametersFirst"}

\* strings.Join(list, sep), a string being the sequence of its characters
RECURSIVE JoinStrings(_, _)
JoinStrings(list, sep) ==
  IF list = <<>> THEN <<>>
  ELSE IF Len(list) = 1 THEN list[1]
  ELSE list[1] \o sep \o JoinStrings(Tail(list), sep)

\* err.Error() of an error of f.Parse: the parts its text is made of, without
\* the identity of the value
ErrorText(e) == <<e.kind, e.name, e.value>>

\* FlagsAfterParametersError(text): what is the error's text, the joined
\* arguments or the text of another error
FlagsAfterParametersError(what) == Err("flags present after parameters", <<>>, what)

\* FlagSet.NFlag
NFlag(f) == Cardinality(f.actual)

\* a run of executeSubCommand that has not started; st holds the locals
\* [f, args, params, err] of the mode's function, nParse counts the calls
\* of f.Parse, err is what parseSubCommandArgs returns and result what
\* executeSubCommand returns
ModeRunIdle ==
  [pc |-> "idle", mode |-> "ModeInterspersed", args |-> <<>>,
   st |-> [f |-> EmptyFlagSet, args |-> <<>>, params |-> <<>>, err |-> NoErr],
   nParse |-> 0, err |-> NoErr, calls |-> <<>>, result |-> NilError]

\* parseSubCommandFlagsFirst: r is what f.Parse(args) gave
flagsFirstRejectsFlags(m, r) ==
  IF r.err # NoErr
  THEN [m EXCEPT !.pc = "returned", !.st.f = r.f, !.err = r.err]
  ELSE IF \E i \in DOMAIN r.f.args : Len(r.f.args[i]) >= 2 /\ r.f.args[i][1] = "-"
  THEN [m EXCEPT !.pc = "returned", !.st.f = r.f, !.st.args = r.f.args,
                 !.err = FlagsAfterParametersError(JoinStrings(r.f.args, <<",", " ">>))]
  ELSE [m EXCEPT !.pc = "setParameters", !.st.f = r.f, !.st.args = r.f.args,
                 !.st.params = r.f.args]

flagsFirstAfterParse(m, r) ==
  IF r.err # NoErr
  THEN [m EXCEPT !.pc = "returned", !.st.f = r.f, !.err = r.err]
  ELSE [m EXCEPT !.pc = "setParameters", !.st.f = r.f, !.st.args = r.f.args,
                 !.st.params = r.f.args]

parseSubCommandFlagsFirst(m) ==
  Only({flagsFirstAfterParse([m EXCEPT !.nParse = @ + 1], r) :
        r \in {Parse(m.st.f, m.st.args)}})

\* parseSubCommandParametersFirst: the loop's condition; its body is that of
\* the interspersed loop
parametersFirstCond(st) ==
  st.err = NoErr /\ NFlag(st.f) = 0 /\ Len(st.args) > 0

\* parseSubCommandParametersFirst once the loop is left
parametersFirstExitWrapsHelp(m) ==
  IF m.st.err # NoErr
  THEN [m EXCEPT !.pc = "returned",
                 !.err = FlagsAfterParametersError(ErrorText(m.st.err))]
  ELSE IF Len(m.st.args) > 0
  THEN [m EXCEPT !.pc = "returned",
                 !.err = FlagsAfterParametersError(JoinStrings(m.st.args, <<",", " ">>))]
  ELSE [m EXCEPT !.pc = "setParameters"]

parametersFirstExit(m) ==
  IF m.st.err # NoErr
  THEN [m EXCEPT !.pc = "returned",
                 !.err = IF m.st.err = ErrHelp THEN ErrHelp
                         ELSE FlagsAfterParametersError(ErrorText(m.st.err))]
  ELSE IF Len(m.st.args) > 0
  THEN [m EXCEPT !.pc = "returned",
                 !.err = FlagsAfterParametersError(JoinStrings(m.st.args, <<",", " ">>))]
  ELSE [m EXCEPT !.pc = "setParameters"]

\* parseSubCommandInterspersed once the loop is left
interspersedExit(m) ==
  IF m.st.err # NoErr
  THEN [m EXCEPT !.pc = "returned", !.err = m.st.err]
  ELSE [m EXCEPT !.pc = "setParameters"]

\* return subCommand.SetParameters(params), which returns e
modeSetParameters(m, e) ==
  [m EXCEPT !.pc = "returned", !.err = e,
            !.calls = Append(@, Call("SetParameters", "subCommand", m.st.params, e))]

\* executeSubCommand once parseSubCommandArgs has returned m.err; Execute,
\* if it is called, returns e
modeExecuteSubCommandIgnoresError(m, e) ==
  [m EXCEPT !.pc = "done",
            !.calls = Append(@, Call("Execute", "subCommand", <<>>, e)),
            !.result = IF e # NoErr THEN Wrapped("*ExecutingSubCommandError", e)
                       ELSE NilError]

modeExecuteSubCommand(m, e) ==
  IF m.err # NoErr
  THEN [m EXCEPT !.pc = "done", !.result = Wrapped("ParsingSubCommandError", m.err)]
  ELSE [m EXCEPT !.pc = "done",
                 !.calls = Append(@, Call("Execute", "subCommand", <<>>, e)),
                 !.result = IF e # NoErr THEN Wrapped("*ExecutingSubCommandError", e)
                            ELSE NilError]

(***************************************************************************)
(* State.                                                                  *)
(***************************************************************************)
VARIABLES
  in0,        \* the args ParseArgumentsInterspersed was called with
  pst,        \* its locals: [f, args, params, err]
  ret,        \* its returned params: [params, isNil]
  nParse,     \* how many times it has called f.Parse
  ppc,        \* "loop" while the loop runs, "done" once it has returned
  cmd,        \* a Commander and its run of ExecuteContext
  sc,         \* a SubCommander: names, aliases, DisallowGlobalFlagsWithSubCommand
  regLog,     \* the SubCommands Register was called with, in order
  run,        \* the SubCommander's run of ExecuteContext
  mrun        \* a run of parseSubCommandArgs under a ParameterFlagMode

parseVars == <<in0, pst, ret, nParse, ppc>>

cmdVars == <<cmd>>

subVars == <<sc, regLog, run>>

modeVars == <<mrun>>

vars == <<in0, pst, ret, nParse, ppc, cmd, sc, regLog, run, mrun>>

\* no subcommand's arguments are being parsed under a ParameterFlagMode
ModeIdle == mrun = ModeRunIdle

\* no SubCommander is in use
SubIdle ==
  /\ sc = NewSubCommander(FALSE)
  /\ regLog = <<>>
  /\ run = RunIdle


\* no call of ParseArgumentsInterspersed on its own is under way
ParseIdle ==
  /\ in0 = <<>>
  /\ pst = [f |-> EmptyFlagSet, args |-> <<>>, params |-> <<>>, err |-> NoErr]
  /\ ret = [params |-> <<>>, isNil |-> FALSE]
  /\ nParse = 0
  /\ ppc = "idle"

(***************************************************************************)
(* The classifier, one loop iteration per step.                            *)
(***************************************************************************)
ParseInit ==
  /\ in0 \in ArgLists(ParseTokens, MaxArgs)
  /\ pst = [f |-> ParseFlagSet, args |-> in0, params |-> <<>>, err |-> NoErr]
  /\ ret = [params |-> <<>>, isNil |-> FALSE]
  /\ nParse = 0
  /\ ppc = "loop"
  /\ cmd = CmdIdle
  /\ SubIdle
  /\ ModeIdle

PILoop ==
  /\ ppc = "loop"
  /\ loopCond(pst)
  /\ pst' = loopBody(pst)
  /\ nParse' = nParse + 1
  /\ UNCHANGED <<in0, ret, ppc, cmd, sc, regLog, run, mrun>>

PIReturn ==
  /\ ppc = "loop"
  /\ ~loopCond(pst)
  /\ ret' = returnParams(pst)
  /\ ppc' = "done"
  /\ UNCHANGED <<in0, pst, nParse, cmd, sc, regLog, run, mrun>>

ParseNext == PILoop \/ PIReturn

SpecParse == ParseInit /\ [][ParseNext]_vars

\* the tokens of the runs whose termination is checked: a flag and its
\* value, the terminator, a parameter, an undeclared flag
FairParseTokens == {TokA, TokOne, DoubleMinus, TokX, TokU}

ParseInitFair ==
  /\ in0 \in ArgLists(FairParseTokens, MaxArgs)
  /\ pst = [f |-> ParseFlagSet, args |-> in0, params |-> <<>>, err |-> NoErr]
  /\ ret = [params |-> <<>>, isNil |-> FALSE]
  /\ nParse = 0
  /\ ppc = "loop"
  /\ cmd = CmdIdle
  /\ SubIdle
  /\ ModeIdle

\* the call runs on: a step that can be taken is taken
SpecParseFair == ParseInitFair /\ [][ParseNext]_vars /\ WF_vars(ParseNext)

(***************************************************************************)
(* One run of Commander.ExecuteContext, one call on the Command per step.  *)
(***************************************************************************)
CmdInit ==
  /\ ParseIdle
  /\ SubIdle
  /\ ModeIdle
  /\ \E cfg \in CmdConfigs, args \in ArgLists(CmdTokens, MaxCmdArgs) :
       cmd = [CmdIdle EXCEPT !.pc = "start", !.cfg = cfg, !.args = args]

CmdClassify ==
  /\ cmd.pc = "start"
  /\ cmd' = cmdClassify(cmd)
  /\ UNCHANGED <<parseVars, subVars, modeVars>>

CmdSetParameters ==
  /\ cmd.pc = "classified"
  /\ \E e \in SetParametersResults : cmd' = cmdSetParameters(cmd, e)
  /\ UNCHANGED <<parseVars, subVars, modeVars>>

CmdExecute ==
  /\ cmd.pc = "parametersSet"
  /\ \E e \in ExecuteResults : cmd' = cmdExecute(cmd, e)
  /\ UNCHANGED <<parseVars, subVars, modeVars>>

CmdReport ==
  /\ cmd.pc = "returned"
  /\ cmd' = cmdReport(cmd)
  /\ UNCHANGED <<parseVars, subVars, modeVars>>

CmdNext == CmdClassify \/ CmdSetParameters \/ CmdExecute \/ CmdReport

SpecCommander == CmdInit /\ [][CmdNext]_vars

(***************************************************************************)
(* Runs of SubCommander.ExecuteContext, one call on the flag set or on the *)
(* SubCommand per step.                                                    *)
(***************************************************************************)
\* the arguments a SubCommander with A registered is run with
SubTokens == {TokG, TokOne, TokSub, TokS, TokX, TokH, DoubleMinus}

SubParseGlobals ==
  /\ run.pc = "start"
  /\ run' = subParseGlobals(sc, run)
  /\ UNCHANGED <<parseVars, cmdVars, modeVars, sc, regLog>>

SubResolve ==
  /\ run.pc = "globalsParsed"
  /\ run' = subResolve(sc, run)
  /\ UNCHANGED <<parseVars, cmdVars, modeVars, sc, regLog>>

SubParseSubCommandArgs ==
  /\ run.pc = "resolved"
  /\ run' = subParseSubCommandArgs(sc, run)
  /\ UNCHANGED <<parseVars, cmdVars, modeVars, sc, regLog>>

SubSetParameters ==
  /\ run.pc = "classified"
  /\ \E e \in subSetParametersResults(run) : run' = subSetParameters(run, e)
  /\ UNCHANGED <<parseVars, cmdVars, modeVars, sc, regLog>>

SubExecute ==
  /\ run.pc = "parametersSet"
  /\ IF run.sub = HelpId THEN run' = helpExecute(sc, run)
     ELSE IF run.sub = ListId THEN run' = listExecute(sc, run)
     ELSE \E e \in ExecuteResults : run' = subExecute(run, e)
  /\ UNCHANGED <<parseVars, cmdVars, modeVars, sc, regLog>>

SubReport ==
  /\ run.pc = "returned"
  /\ run' = subReport(sc, run)
  /\ UNCHANGED <<parseVars, cmdVars, modeVars, sc, regLog>>

SubSteps ==
  \/ SubParseGlobals
  \/ SubResolve
  \/ SubParseSubCommandArgs
  \/ SubSetParameters
  \/ SubExecute
  \/ SubReport

\* a SubCommander with A and E registered, mixing allowed or not, and the
\* arguments of its run
SubInit ==
  /\ ParseIdle
  /\ cmd = CmdIdle
  /\ ModeIdle
  /\ \E disallow \in BOOLEAN :
       sc = Register(Register(NewSubCommander(disallow), "A"), "E")
  /\ regLog = <<"A", "E">>
  /\ \E args \in ArgLists(SubTokens, MaxSubArgs) :
       run = [RunIdle EXCEPT !.pc = "start", !.args = args]

SpecSubCommander == SubInit /\ [][SubSteps]_vars

\* the arguments of a run of a SubCommander that has the help SubCommand
HelpTokens == {TokHelp, TokList, TokSub, TokAlias, TokX, TokG, TokOne}

\* a SubCommander with A registered and RegisterHelp and RegisterList called
HelpInit ==
  /\ ParseIdle
  /\ cmd = CmdIdle
  /\ ModeIdle
  /\ \E disallow \in BOOLEAN :
       sc = Register(Register(Register(NewSubCommander(disallow), "A"), HelpId), ListId)
  /\ regLog = <<"A", HelpId, ListId>>
  /\ \E args \in ArgLists(HelpTokens, MaxHelpArgs) :
       run = [RunIdle EXCEPT !.pc = "start", !.args = args]

SpecHelp == HelpInit /\ [][SubSteps]_vars

(***************************************************************************)
(* A SubCommander under registration: Register calls and runs, in turn.    *)
(***************************************************************************)
\* the arguments it is run with
DispatchTokens == {TokSub, TokAlias, TokX, TokOne}

RegInit ==
  /\ ParseIdle
  /\ cmd = CmdIdle
  /\ SubIdle
  /\ ModeIdle

DoRegister ==
  /\ run.pc = "idle"
  /\ Len(regLog) < MaxRegister
  /\ \E id \in SubCommandIds \ {HelpId, ListId} :
       /\ sc' = Register(sc, id)
       /\ regLog' = Append(regLog, id)
  /\ UNCHANGED <<parseVars, cmdVars, modeVars, run>>

RegStart ==
  /\ run.pc = "idle"
  /\ \E args \in ArgLists(DispatchTokens, MaxDispatchArgs) :
       run' = [RunIdle EXCEPT !.pc = "start", !.args = args]
  /\ UNCHANGED <<parseVars, cmdVars, modeVars, sc, regLog>>

\* ExecuteContext has returned: the SubCommander may be used again; what the
\* flags were bound to keeps its values
RegFinish ==
  /\ run.pc = "done"
  /\ run' = [RunIdle EXCEPT !.store = run.store]
  /\ UNCHANGED <<parseVars, cmdVars, modeVars, sc, regLog>>

RegNext == DoRegister \/ RegStart \/ RegFinish \/ SubSteps

SpecRegistry == RegInit /\ [][RegNext]_vars

(***************************************************************************)
(* Runs of executeSubCommand (src/subcommander.go) under each              *)
(* ParameterFlagMode, one call of f.Parse, SetParameters or Execute per    *)
(* step.                                                                   *)
(***************************************************************************)
\* the arguments that follow the subcommand's name
ModeTokens == {TokA, TokB, TokOne, TokX, TokH, DoubleMinus}

\* the subcommand declares -a int, -b bool and -s string
ModeInit ==
  /\ ParseIdle
  /\ cmd = CmdIdle
  /\ SubIdle
  /\ \E mode \in ParameterFlagModes, args \in ArgLists(ModeTokens, MaxModeArgs) :
       mrun = [ModeRunIdle EXCEPT !.pc = "start", !.mode = mode, !.args = args,
                                  !.st.f = ParseFlagSet, !.st.args = args]

ModeFlagsFirst ==
  /\ mrun.pc = "start"
  /\ mrun.mode = "ModeFlagsFirst"
  /\ mrun' = parseSubCommandFlagsFirst(mrun)
  /\ UNCHANGED <<parseVars, cmdVars, subVars>>

ModeParametersFirstLoop ==
  /\ mrun.pc = "start"
  /\ mrun.mode = "ModeParametersFirst"
  /\ parametersFirstCond(mrun.st)
  /\ mrun' = [mrun EXCEPT !.st = loopBody(mrun.st), !.nParse = @ + 1]
  /\ UNCHANGED <<parseVars, cmdVars, subVars>>

ModeParametersFirstExit ==
  /\ mrun.pc = "start"
  /\ mrun.mode = "ModeParametersFirst"
  /\ ~parametersFirstCond(mrun.st)
  /\ mrun' = parametersFirstExit(mrun)
  /\ UNCHANGED <<parseVars, cmdVars, subVars>>

ModeInterspersedLoop ==
  /\ mrun.pc = "start"
  /\ mrun.mode = "ModeInterspersed"
  /\ loopCond(mrun.st)
  /\ mrun' = [mrun EXCEPT !.st = loopBody(mrun.st), !.nParse = @ + 1]
  /\ UNCHANGED <<parseVars, cmdVars, subVars>>

ModeInterspersedExit ==
  /\ mrun.pc = "start"
  /\ mrun.mode = "ModeInterspersed"
  /\ ~loopCond(mrun.st)
  /\ mrun' = interspersedExit(mrun)
  /\ UNCHANGED <<parseVars, cmdVars, subVars>>

ModeSetParameters ==
  /\ mrun.pc = "setParameters"
  /\ \E e \in SetParametersResults : mrun' = modeSetParameters(mrun, e)
  /\ UNCHANGED <<parseVars, cmdVars, subVars>>

ModeExecuteSubCommand ==
  /\ mrun.pc = "returned"
  /\ \E e \in (IF mrun.err # NoErr THEN {NoErr} ELSE ExecuteResults) :
       mrun' = modeExecuteSubCommand(mrun, e)
  /\ UNCHANGED <<parseVars, cmdVars, subVars>>

ModeNext ==
  \/ ModeFlagsFirst
  \/ ModeParametersFirstLoop
  \/ ModeParametersFirstExit
  \/ ModeInterspersedLoop
  \/ ModeInterspersedExit
  \/ ModeSetParameters
  \/ ModeExecuteSubCommand

SpecModes == ModeInit /\ [][ModeNext]_vars

(***************************************************************************)
(* Either dispatcher: one run of a Commander or of a SubCommander.         *)
(***************************************************************************)
SpecDispatch == (CmdInit \/ SubInit) /\ [][CmdNext \/ SubSteps]_vars

(***************************************************************************)
(* A one-pass reading of an argument list, written from the documented     *)
(* behaviour and not from the loop: left to right, a flag-shaped token is  *)
(* a flag (with the value it takes), "--" at a boundary ends flag          *)
(* interpretation, anything else is a parameter.                           *)
(* The result is [ok, err, params, set, dmValue]: ok is FALSE from the     *)
(* first flag that is undeclared or malformed, err then being the error    *)
(* the flag package gives for it; set maps each flag met to its last       *)
(* value; dmValue says that some flag took "--" as its value.              *)
(***************************************************************************)
IsFlagShaped(t) == Len(t) >= 2 /\ t[1] = "-"

RefStart == [ok |-> TRUE, err |-> NoErr, params |-> <<>>, set |-> <<>>, dmValue |-> FALSE]

RefFail(acc, e) == [acc EXCEPT !.ok = FALSE, !.err = e]

RefSet(acc, name, kind, value) ==
  [acc EXCEPT !.set = (name :> ValueOf(kind, value)) @@ @,
              !.dmValue = @ \/ value = DoubleMinus]

RECURSIVE RefScan(_, _, _, _)
RefScan(formal, toks, i, acc) ==
  IF i > Len(toks) THEN acc
  ELSE
  LET t == toks[i] IN
  IF t = DoubleMinus
  THEN [acc EXCEPT !.params = @ \o SubSeq(toks, i + 1, Len(toks))]
  ELSE IF ~IsFlagShaped(t)
  THEN RefScan(formal, toks, i + 1, [acc EXCEPT !.params = Append(@, t)])
  ELSE
  LET body == IF t[2] = "-" THEN SubSeq(t, 3, Len(t)) ELSE Tail(t)
      eq == EqualsIndex(body)
      name == IF eq = 0 THEN body ELSE SubSeq(body, 1, eq - 1)
      inline == SubSeq(body, eq + 1, Len(body))
  IN
  IF body[1] \in {"-", "="} THEN RefFail(acc, Err("bad flag syntax", t, <<>>))
  ELSE IF name \notin DOMAIN formal
  THEN IF name \in {<<"h">>, <<"h", "e", "l", "p">>}
       THEN RefFail(acc, ErrHelp)
       ELSE RefFail(acc, Err("flag provided but not defined", name, <<>>))
  ELSE
  LET kind == formal[name] IN
  IF kind = "bool"
  THEN LET v == IF eq = 0 THEN <<"t", "r", "u", "e">> ELSE inline IN
       IF ValueOK(kind, v)
       THEN RefScan(formal, toks, i + 1, RefSet(acc, name, kind, v))
       ELSE RefFail(acc, Err("invalid boolean value", name, v))
  ELSE IF eq # 0
  THEN IF ValueOK(kind, inline)
       THEN RefScan(formal, toks, i + 1, RefSet(acc, name, kind, inline))
       ELSE RefFail(acc, Err("invalid value", name, inline))
  ELSE IF i = Len(toks)
  THEN RefFail(acc, Err("flag needs an argument", name, <<>>))
  ELSE IF ValueOK(kind, toks[i + 1])
       THEN RefScan(formal, toks, i + 2, RefSet(acc, name, kind, toks[i + 1]))
       ELSE RefFail(acc, Err("invalid value", name, toks[i + 1]))

Ref(formal, toks) == RefScan(formal, toks, 1, RefStart)

HasDoubleMinus(toks) == \E i \in 1..Len(toks) : toks[i] = DoubleMinus

\* the flag set holds exactly the flags of set, with those values
FlagsAre(f, set) ==
  /\ f.actual = DOMAIN set
  /\ \A n \in DOMAIN f.formal :
       f.vals[n] = IF n \in DOMAIN set THEN set[n] ELSE DefaultOf(f.formal[n])

(***************************************************************************)
(* Claims about ParseArgumentsInterspersed.                                *)
(***************************************************************************)

\* C1: for an argument list with no "--" token whose flag-shaped tokens are
\* all declared and well-formed, the call returns a nil error and exactly
\* the input without the flag tokens and the values they take, in order; and
\* every flag met is set, wherever it stands among the parameters.
C1_InterspersedRemovesFlags ==
  LET ref == Ref(ParseFlagSet.formal, in0) IN
  (ppc = "done" /\ ~HasDoubleMinus(in0) /\ ref.ok)
    => /\ pst.err = NoErr
       /\ ~ret.isNil
       /\ ret.params = ref.params
       /\ FlagsAre(pst.f, ref.set)

\* "x -a 1 1 -b": flags between and after the parameters
C1_Witness ==
  /\ ppc = "done"
  /\ in0 = <<TokX, TokA, TokOne, TokOne, TokB>>
  /\ ret.params = <<TokX, TokOne>>
  /\ pst.f.actual = {<<"a">>, <<"b">>}
  /\ pst.f.vals[<<"a">>] = 1

\* Parse of argv stops by consuming a "--" that stands at an unconsumed
\* boundary: the tokens before it are all flags and their values.
TerminatorAt(f, argv) ==
  LET r == Parse(f, argv)
      p == Len(argv) - Len(r.f.args)
  IN  IF r.err = NoErr /\ p >= 1 /\ argv[p] = DoubleMinus
         /\ (LET q == Parse(f, SubSeq(argv, 1, p - 1))
             IN  q.err = NoErr /\ Len(q.f.args) = 0)
      THEN p ELSE 0

\* C2: in an iteration whose Parse stops at a "--" that is the next
\* unconsumed token, the "--" is dropped, every token after it is appended
\* to params verbatim and in order, nothing is left to parse and there is
\* no error; so "-- -a 1 x" returns "-a 1 x", "-a 1 -- -b x" returns "-b x"
\* with -b unset, and "--" alone returns the empty list.
C2_TerminatorCapturesRest ==
  /\ [][(ppc = "loop" /\ loopCond(pst) /\ TerminatorAt(pst.f, pst.args) # 0)
          => LET p == TerminatorAt(pst.f, pst.args) IN
             /\ pst'.err = NoErr
             /\ pst'.args = <<>>
             /\ pst'.params = pst.params \o SubSeq(pst.args, p + 1, Len(pst.args))
             /\ pst'.f.actual = Parse(pst.f, SubSeq(pst.args, 1, p - 1)).f.actual
       ]_vars
  /\ [](ppc = "done" /\ in0 = <<DoubleMinus, TokA, TokOne, TokX>>
          => pst.err = NoErr /\ ret.params = <<TokA, TokOne, TokX>>
             /\ pst.f.actual = {})
  /\ [](ppc = "done" /\ in0 = <<TokA, TokOne, DoubleMinus, TokB, TokX>>
          => pst.err = NoErr /\ ret.params = <<TokB, TokX>>
             /\ pst.f.actual = {<<"a">>})
  /\ [](ppc = "done" /\ in0 = <<DoubleMinus>>
          => pst.err = NoErr /\ ret.params = <<>>)

\* "x -a 1 -- -b" has run to its end: -b, after the terminator, is a parameter
C2_Witness ==
  /\ ppc = "done"
  /\ in0 = <<TokX, TokA, TokOne, DoubleMinus, TokB>>
  /\ ret.params = <<TokX, TokB>>
  /\ pst.f.actual = {<<"a">>}

\* C3: a "--" that a value-taking flag takes as its value has no terminator
\* meaning: the tokens after it are classified as usual, so the call returns
\* what the one-pass reading gives ("-s -- x -a 1": -a is set, only x is a
\* parameter).
C3_DoubleMinusValueIsNoTerminator ==
  LET ref == Ref(ParseFlagSet.formal, in0) IN
  (ppc = "done" /\ ref.ok /\ ref.dmValue)
    => /\ pst.err = NoErr
       /\ ret.params = ref.params
       /\ FlagsAre(pst.f, ref.set)

\* C4: once Parse has returned an error the loop makes no further step, the
\* call returns that error (the one the first undeclared or malformed flag
\* gives) with a nil params, whatever had been captured; and nothing after
\* the failing token is read: the same call on the tokens up to it gives the
\* same error and leaves the same flags set.
C4_ErrorStopsClassification ==
  /\ [][pst.err # NoErr => pst' = pst /\ nParse' = nParse]_vars
  /\ [](ppc = "done" /\ pst.err # NoErr
          => LET k == Len(in0) - Len(pst.f.args)
                 pre == ParseArgumentsInterspersed(ParseFlagSet, SubSeq(in0, 1, k))
             IN  /\ ret.isNil
                 /\ ret.params = <<>>
                 /\ pst.err = Ref(ParseFlagSet.formal, in0).err
                 /\ pre.err = pst.err
                 /\ pre.f.actual = pst.f.actual
                 /\ pre.f.vals = pst.f.vals)

\* "x -b 1 -a x": two parameters captured, then a malformed value for -a
C4_Witness ==
  /\ ppc = "done"
  /\ in0 = <<TokX, TokB, TokOne, TokA, TokX>>
  /\ pst.params = <<TokX, TokOne>>
  /\ pst.err = Err("invalid value", <<"a">>, TokX)
  /\ ret.isNil

(***************************************************************************)
(* Claims about Commander.ExecuteContext and SubCommander.ExecuteContext.  *)
(***************************************************************************)
\* the positions of the calls of op in a log of calls
CallsOf(log, op) == {i \in DOMAIN log : log[i].op = op}

\* the output holds a usage line
UsageWritten(out) == \E i \in DOMAIN out : out[i].seg = "usage"

\* the flags a Command of CmdConfigs declares, by name
CmdFormal(cfg) ==
  IF cfg.flags THEN (<<"a">> :> "int") @@ (<<"b">> :> "bool") ELSE <<>>

\* C5: in a run of Commander.ExecuteContext, if the classification of the
\* arguments fails, or Command.SetParameters returns an error, the result is
\* a *ParsingCommandError wrapping exactly that error, usage is written to
\* the error stream and Command.Execute is not called in the run.
C5_ParsingErrorHaltsCommand ==
  LET ref == Ref(CmdFormal(cmd.cfg), cmd.args)
      sp == CallsOf(cmd.calls, "SetParameters")
      ex == CallsOf(cmd.calls, "Execute")
  IN  /\ ~ref.ok => sp = {} /\ ex = {}
      /\ \A i \in sp : cmd.calls[i].result # NoErr => ex = {}
      /\ cmd.pc = "done" =>
           /\ ~ref.ok =>
                /\ cmd.err = Wrapped("*ParsingCommandError", ref.err)
                /\ UsageWritten(cmd.outErr)
           /\ \A i \in sp : cmd.calls[i].result # NoErr =>
                /\ cmd.err = Wrapped("*ParsingCommandError", cmd.calls[i].result)
                /\ UsageWritten(cmd.outErr)

\* "x": SetParameters refused the parameter and the run is over
C5_Witness ==
  /\ cmd.pc = "done"
  /\ cmd.args = <<TokX>>
  /\ \E i \in CallsOf(cmd.calls, "SetParameters") :
       cmd.calls[i].params = <<TokX>> /\ cmd.calls[i].result = ErrParameter
  /\ cmd.err = Wrapped("*ParsingCommandError", ErrParameter)
  /\ UsageWritten(cmd.outErr)

\* the kinds of result of SubCommander.ExecuteContext
SubResultTypes ==
  {"nil", "*ParsingGlobalArgsError", "ErrUnsuppliedSubCommand",
   "UnknownSubCommandError", "*ParsingSubCommandError",
   "*ExecutingSubCommandError"}

UndefinedFlag(name) == Err("flag provided but not defined", name, <<>>)

\* C6: SubCommander.ExecuteContext returns nil, a *ParsingGlobalArgsError,
\* ErrUnsuppliedSubCommand, an UnknownSubCommandError, a
\* *ParsingSubCommandError or an *ExecutingSubCommandError; Execute is
\* called, on the resolved SubCommand, exactly when the result is nil or an
\* *ExecutingSubCommandError, so a failure of the global flags, a missing or
\* unknown name, a failure of the subcommand's flags and an error of
\* SetParameters all halt before Execute; and Execute is called at most once.
C6_ResultKindsAndExecuteGate ==
  LET sp == CallsOf(run.calls, "SetParameters")
      ex == CallsOf(run.calls, "Execute")
      n == Len(run.args)
  IN  /\ Cardinality(ex) <= 1
      /\ \A i \in ex : run.sub # NoSub /\ run.calls[i].who = run.sub
      /\ \A i \in sp : run.calls[i].result # NoErr => ex = {}
      /\ run.pc = "done" =>
           /\ run.err.type \in SubResultTypes
           /\ (ex # {}) <=> (run.err.type \in {"nil", "*ExecutingSubCommandError"})
           /\ \A i \in ex :
                run.err = IF run.calls[i].result = NoErr THEN NilError
                          ELSE Wrapped("*ExecutingSubCommandError", run.calls[i].result)
           /\ \A i \in sp : run.calls[i].result # NoErr =>
                run.err = Wrapped("*ParsingSubCommandError", run.calls[i].result)
           /\ n = 0 => run.err = ErrUnsuppliedSubCommand
           /\ (n >= 1 /\ run.args[1] = TokH) =>
                run.err = Wrapped("*ParsingGlobalArgsError", ErrHelp)
           /\ (n >= 1 /\ run.args[1] = TokS) =>
                run.err = Wrapped("*ParsingGlobalArgsError", UndefinedFlag(<<"s">>))
           /\ (n >= 1 /\ run.args[1] \in {TokX, TokOne}
                 /\ getSubCommand(sc, run.args[1]) = NoSub) =>
                run.err = UnknownSubCommandError(run.args[1])
           /\ (n >= 2 /\ run.args[1] = TokSub /\ run.args[2] = TokH) =>
                run.err = Wrapped("*ParsingSubCommandError", ErrHelp)

\* "sub x": SetParameters refused the parameter; Execute was not called
C6_Witness ==
  /\ run.pc = "done"
  /\ run.args = <<TokSub, TokX>>
  /\ run.sub = "A"
  /\ run.err = Wrapped("*ParsingSubCommandError", ErrParameter)
  /\ CallsOf(run.calls, "SetParameters") # {}
  /\ CallsOf(run.calls, "Execute") = {}

\* SetParameters and Execute are called at most once each, Execute only
\* after SetParameters
CalledOnceInOrder(log) ==
  /\ Cardinality(CallsOf(log, "SetParameters")) <= 1
  /\ Cardinality(CallsOf(log, "Execute")) <= 1
  /\ \A j \in CallsOf(log, "Execute") :
       \E i \in CallsOf(log, "SetParameters") : i < j /\ log[i].who = log[j].who

\* the flags the arguments of SubCommand id are classified with, by name
SubFormal(s, id) ==
  LET d == (IF s.DisallowGlobalFlagsWithSubCommand THEN <<>> ELSE GlobalDecl)
           \o SubCommands[id].decl
  IN  [n \in {d[i].name : i \in DOMAIN d} |->
         d[CHOOSE i \in DOMAIN d : d[i].name = n].kind]

\* C7: in a run of a Commander, and in a run of a SubCommander for the
\* SubCommand it resolved, SetParameters and Execute are called at most
\* once each, SetParameters before Execute, and SetParameters only once the
\* classification of all the arguments has returned without error, with
\* the whole list of captured parameters in that one call.
C7_SetParametersThenExecuteOnce ==
  /\ CalledOnceInOrder(cmd.calls)
  /\ CalledOnceInOrder(run.calls)
  /\ \A i \in CallsOf(cmd.calls, "SetParameters") :
       LET ref == Ref(CmdFormal(cmd.cfg), cmd.args) IN
       /\ ref.ok
       /\ cmd.calls[i].params = ref.params
  /\ \A i \in CallsOf(run.calls, "SetParameters") :
       /\ run.sub # NoSub
       /\ run.calls[i].who = run.sub
       /\ Only({/\ r.err = NoErr
                /\ ~r.isNil
                /\ run.calls[i].params = r.params :
                r \in {ParseArgumentsInterspersed(
                         SetFlags(EmptyFlagSet,
                                  (IF sc.DisallowGlobalFlagsWithSubCommand
                                   THEN <<>> ELSE GlobalDecl)
                                  \o SubCommands[run.sub].decl),
                         run.rest)}})
       /\ LET ref == Ref(SubFormal(sc, run.sub), run.rest) IN
          ~ref.dmValue => ref.ok /\ run.calls[i].params = ref.params

\* "x -a 1": the Commander called SetParameters with the one parameter and
\* then Execute
C7_Witness ==
  /\ cmd.pc = "done"
  /\ cmd.args = <<TokX, TokA, TokOne>>
  /\ cmd.cfg.flags
  /\ Len(cmd.calls) = 3
  /\ cmd.calls[2].op = "SetParameters"
  /\ cmd.calls[2].params = <<TokX>>
  /\ cmd.calls[3].op = "Execute"

(***************************************************************************)
(* Claims about the registry of a SubCommander.                            *)
(***************************************************************************)
\* the keys a registration uses: its name and its aliases
KeysOf(id) ==
  {SubCommands[id].name} \cup
  {SubCommands[id].aliases[i] : i \in DOMAIN SubCommands[id].aliases}

\* the results SetParameters and Execute gave in a log of calls
Answered(log, eSet, eExec) ==
  /\ \A i \in CallsOf(log, "SetParameters") : log[i].result = eSet
  /\ \A i \in CallsOf(log, "Execute") : log[i].result = eExec

\* C8: after Register(S), resolving the name of S and resolving any alias
\* of S return S, and a run given an alias of S executes S as the run given
\* its name does; a run given a token that is neither a registered name nor
\* a registered alias returns an UnknownSubCommandError carrying the token,
\* no method of a SubCommand being called.
C8_NameAndAliasesResolveToRegistered ==
  /\ regLog # <<>> =>
       LET id == regLog[Len(regLog)] IN
       /\ \A k \in KeysOf(id) : getSubCommand(sc, k) = id
       /\ (run.pc = "done" /\ Len(run.args) >= 1
             /\ run.args[1] \in KeysOf(id)) =>
            \A eSet \in SetParametersResults, eExec \in ExecuteResults :
              Answered(run.calls, eSet, eExec) =>
                LET byName == ExecuteContext(sc,
                                <<SubCommands[id].name>> \o Tail(run.args),
                                eSet, eExec)
                IN  /\ run.sub = id
                    /\ byName.sub = id
                    /\ byName.calls = run.calls
                    /\ byName.params = run.params
                    /\ byName.err = run.err
  /\ (run.pc = "done" /\ Len(run.args) >= 1
        /\ \A i \in DOMAIN regLog : run.args[1] \notin KeysOf(regLog[i])) =>
       /\ run.err = UnknownSubCommandError(run.args[1])
       /\ \A i \in DOMAIN run.calls : run.calls[i].who \notin SubCommandIds

\* C9: after any sequence of Register calls, a key (a name or an alias)
\* that more than one registration used resolves to the SubCommand of the
\* most recent registration that used it.
C9_LastRegistrationOfKeyWins ==
  \A k \in UNION {KeysOf(id) : id \in SubCommandIds} :
    LET uses == {i \in DOMAIN regLog : k \in KeysOf(regLog[i])} IN
    Cardinality(uses) > 1 =>
      getSubCommand(sc, k) = regLog[CHOOSE i \in uses : \A j \in uses : j <= i]

(***************************************************************************)
(* Claims about global flags before and after the subcommand's name.       *)
(***************************************************************************)
\* C10: with DisallowGlobalFlagsWithSubCommand false, "-g 1 sub" followed
\* by any arguments and "sub -g 1" followed by the same arguments end the
\* same way: the same flag values, the same captured parameters, the same
\* calls, output and result.  With it true, "-g 1 sub" followed by
\* well-formed arguments of the subcommand succeeds when SetParameters and
\* Execute do, while "sub -g ..." returns a *ParsingSubCommandError for the
\* undeclared flag g, and Execute is not called.
C10_GlobalFlagBeforeOrAfterName ==
  LET n == Len(run.args)
      before == n >= 3 /\ SubSeq(run.args, 1, 3) = <<TokG, TokOne, TokSub>>
      rest == SubSeq(run.args, 4, n)
  IN  /\ (run.pc = "done" /\ ~sc.DisallowGlobalFlagsWithSubCommand /\ before) =>
           \A eSet \in SetParametersResults, eExec \in ExecuteResults :
             Answered(run.calls, eSet, eExec) =>
               LET after == ExecuteContext(sc, <<TokSub, TokG, TokOne>> \o rest,
                                           eSet, eExec)
               IN  /\ after.store = run.store
                   /\ after.f.actual = run.f.actual
                   /\ after.params = run.params
                   /\ after.err = run.err
                   /\ after.calls = run.calls
                   /\ after.outErr = run.outErr
      /\ (run.pc = "done" /\ sc.DisallowGlobalFlagsWithSubCommand /\ before) =>
           LET ref == Ref(SubFormal(sc, "A"), rest) IN
           (ref.ok /\ ~ref.dmValue /\ Answered(run.calls, NoErr, NoErr)) =>
             /\ run.err = NilError
             /\ run.store[<<"g">>] = 1
             /\ run.params.params = ref.params
             /\ CallsOf(run.calls, "Execute") # {}
      /\ (run.pc = "done" /\ sc.DisallowGlobalFlagsWithSubCommand
            /\ n >= 2 /\ SubSeq(run.args, 1, 2) = <<TokSub, TokG>>) =>
           /\ run.err = Wrapped("*ParsingSubCommandError", UndefinedFlag(<<"g">>))
           /\ CallsOf(run.calls, "Execute") = {}
           /\ CallsOf(run.calls, "SetParameters") = {}

\* "-g 1 sub -s 1" with mixing allowed has run to a nil result: g is 1,
\* s is "1" and Execute was called
C10_Witness ==
  /\ run.pc = "done"
  /\ ~sc.DisallowGlobalFlagsWithSubCommand
  /\ run.args = <<TokG, TokOne, TokSub, TokS, TokOne>>
  /\ run.err = NilError
  /\ run.store[<<"g">>] = 1
  /\ run.store[<<"s">>] = TokOne
  /\ CallsOf(run.calls, "Execute") # {}

(***************************************************************************)
(* Claims about the flags of a SubCommander's run.                         *)
(***************************************************************************)
\* the global flags, by name
GlobalFormal ==
  [n \in {GlobalDecl[i].name : i \in DOMAIN GlobalDecl} |->
     GlobalDecl[CHOOSE i \in DOMAIN GlobalDecl : GlobalDecl[i].name = n].kind]

\* the tokens of the run's arguments that stand before the subcommand's name
BeforeName(r) == SubSeq(r.args, 1, Len(r.args) - Len(r.rest) - 1)

\* the subcommand's arguments have been parsed without error
SegmentParsed(r) ==
  r.pc \in {"classified", "parametersSet"} \/ CallsOf(r.calls, "SetParameters") # {}

\* C11: a global flag set by the tokens before the subcommand's name, and
\* not given again after the name, still holds that value once the
\* subcommand's arguments are parsed and when the SubCommand's Execute is
\* called, whatever DisallowGlobalFlagsWithSubCommand is: parsing the
\* subcommand's arguments does not put the flag's default back.
C11_GlobalFlagKeptThroughSubCommandParsing ==
  (SegmentParsed(run) /\ run.pc # "done"
     /\ \A i \in DOMAIN run.rest : run.rest[i] # TokG) =>
    LET pre == Ref(GlobalFormal, BeforeName(run)) IN
    /\ pre.ok
    /\ run.store[<<"g">>] = IF <<"g">> \in DOMAIN pre.set THEN pre.set[<<"g">>]
                            ELSE DefaultOf("int")

\* "-g 1 sub" with mixing disallowed: Execute has been called, g is still 1
C11_Witness ==
  /\ run.pc = "returned"
  /\ sc.DisallowGlobalFlagsWithSubCommand
  /\ run.args = <<TokG, TokOne, TokSub>>
  /\ CallsOf(run.calls, "Execute") # {}
  /\ run.store[<<"g">>] = 1

\* the SubCommand declares a flag named as a global flag
DeclaresGlobalName(id) ==
  \E i \in DOMAIN SubCommands[id].decl :
    SubCommands[id].decl[i].name \in DOMAIN GlobalFormal

\* C12: with mixing allowed, a run that resolves a SubCommand declaring a
\* flag named as a global flag panics when the subcommand's flags are
\* declared: no error is returned, nothing is written, and neither
\* SetParameters nor Execute is called.  With mixing disallowed, or without
\* such a flag, no run panics.
C12_SameFlagNamePanics ==
  /\ (run.sub # NoSub /\ ~sc.DisallowGlobalFlagsWithSubCommand
        /\ DeclaresGlobalName(run.sub)) =>
       /\ run.pc \in {"resolved", "panicked"}
       /\ run.err = NilError
       /\ run.outErr = <<>>
       /\ CallsOf(run.calls, "SetParameters") = {}
       /\ CallsOf(run.calls, "Execute") = {}
  /\ run.pc = "panicked" =>
       /\ run.sub # NoSub
       /\ ~sc.DisallowGlobalFlagsWithSubCommand
       /\ DeclaresGlobalName(run.sub)
       /\ run.calls[Len(run.calls)] = Call("SetFlags", run.sub, <<>>, NoErr)

\* "x" with mixing allowed: x names E, which declares -g as the globals do
C12_Witness ==
  /\ run.pc = "panicked"
  /\ run.args = <<TokX>>
  /\ run.sub = "E"
  /\ ~sc.DisallowGlobalFlagsWithSubCommand

(***************************************************************************)
(* Claims about the dispatch of a SubCommander: the global flags, then the *)
(* name.                                                                   *)
(***************************************************************************)
\* The leading global flags of toks read one flag at a time from i, as the
\* flag package reads them: [sel, err].  err is the error of the first flag
\* that is undeclared or malformed; else sel is the index of the first token
\* left, the one after a "--" or the first that is no flag, or 0 if no token
\* is left.
RECURSIVE GlobalScan(_, _)
GlobalScan(toks, i) ==
  IF i > Len(toks) THEN [sel |-> 0, err |-> NoErr]
  ELSE IF toks[i] = DoubleMinus
  THEN [sel |-> IF i < Len(toks) THEN i + 1 ELSE 0, err |-> NoErr]
  ELSE IF ~IsFlagShaped(toks[i]) THEN [sel |-> i, err |-> NoErr]
  ELSE
  LET alone == Ref(GlobalFormal, <<toks[i]>>)
      both == Ref(GlobalFormal, SubSeq(toks, i, i + 1))
  IN  IF alone.ok THEN GlobalScan(toks, i + 1)
      ELSE IF alone.err.kind = "flag needs an argument" /\ i < Len(toks)
      THEN IF both.ok THEN GlobalScan(toks, i + 2)
           ELSE [sel |-> 0, err |-> both.err]
      ELSE [sel |-> 0, err |-> alone.err]

\* the calls made on SubCommands
SubCommandCalls(log) == {i \in DOMAIN log : log[i].who \in SubCommandIds}

\* C13: the first token left after the global flags only selects the
\* SubCommand: the list SetParameters receives is exactly the interspersed
\* classification of the tokens strictly after that token, so the selecting
\* token itself is never in it.
C13_SelectorIsNotAParameter ==
  \A i \in CallsOf(run.calls, "SetParameters") :
    LET scan == GlobalScan(run.args, 1)
        after == SubSeq(run.args, scan.sel + 1, Len(run.args))
        ref == Ref(SubFormal(sc, run.sub), after)
    IN  /\ scan.err = NoErr
        /\ scan.sel # 0
        /\ run.name = run.args[scan.sel]
        /\ run.calls[i].who = getSubCommand(sc, run.args[scan.sel])
        /\ Len(run.calls[i].params) <= Len(run.args) - scan.sel
        /\ Only({r.err = NoErr /\ run.calls[i].params = r.params :
                 r \in {ParseArgumentsInterspersed(
                          SetFlags(EmptyFlagSet,
                                   (IF sc.DisallowGlobalFlagsWithSubCommand
                                    THEN <<>> ELSE GlobalDecl)
                                   \o SubCommands[run.sub].decl),
                          after)}})
        /\ ~ref.dmValue => ref.ok /\ run.calls[i].params = ref.params

\* "-g 1 sub sub x": the first sub selects A, the second is a parameter
C13_Witness ==
  /\ run.pc = "done"
  /\ run.args = <<TokG, TokOne, TokSub, TokSub, TokX>>
  /\ run.sub = "A"
  /\ \E i \in CallsOf(run.calls, "SetParameters") :
       run.calls[i].params = <<TokSub, TokX>>
  /\ CallsOf(run.calls, "Execute") # {}

\* C14: when no token is left after the global flags (no arguments, or
\* only well-formed global flags), the run returns ErrUnsuppliedSubCommand,
\* writes the error line and then the general usage to the error stream,
\* and calls no SetParameters, Execute or SetFlags of a SubCommand.
C14_NoTokenLeftIsUnsupplied ==
  LET scan == GlobalScan(run.args, 1) IN
  /\ (scan.err = NoErr /\ scan.sel = 0) =>
       /\ run.sub = NoSub
       /\ SubCommandCalls(run.calls) = {}
       /\ run.pc = "done" =>
            /\ run.err = ErrUnsuppliedSubCommand
            /\ Len(run.outErr) >= 2
            /\ run.outErr[1] = Seg("error", ErrUnsuppliedSubCommand.err)
            /\ run.outErr[2].seg = "usage"
            /\ \E j \in DOMAIN run.outErr[2].what :
                 run.outErr[2].what[j] = "sub_command"
  /\ (run.pc = "done" /\ run.err = ErrUnsuppliedSubCommand) =>
       scan.err = NoErr /\ scan.sel = 0

\* "-g 1 -g 1": global flags only
C14_Witness ==
  /\ run.pc = "done"
  /\ run.args = <<TokG, TokOne, TokG, TokOne>>
  /\ run.err = ErrUnsuppliedSubCommand
  /\ run.outErr[1].seg = "error"

\* C15: an error from parsing the leading global flags (help requested, an
\* undeclared flag, a malformed value, a missing value) is returned as a
\* *ParsingGlobalArgsError wrapping it, and no SubCommand is resolved or
\* called, even when a registered name stands later among the tokens.
C15_GlobalFlagErrorStopsBeforeResolution ==
  LET scan == GlobalScan(run.args, 1) IN
  /\ scan.err # NoErr =>
       /\ run.sub = NoSub
       /\ run.name = <<>>
       /\ SubCommandCalls(run.calls) = {}
       /\ run.pc = "done" =>
            run.err = Wrapped("*ParsingGlobalArgsError", scan.err)
  /\ (run.pc = "done" /\ run.err.type = "*ParsingGlobalArgsError") =>
       scan.err # NoErr

\* "-g x sub": the value of -g is malformed; sub is never resolved
C15_Witness ==
  /\ run.pc = "done"
  /\ run.args = <<TokG, TokX, TokSub>>
  /\ run.err = Wrapped("*ParsingGlobalArgsError", Err("invalid value", <<"g">>, TokX))
  /\ run.sub = NoSub

(***************************************************************************)
(* Claims about the ParameterFlagModes (SpecModes).                        *)
(***************************************************************************)
\* the flags the subcommand of a mode run declares
ModeFormal == (<<"a">> :> "int") @@ (<<"b">> :> "bool") @@ (<<"s">> :> "string")

\* Reading flags one at a time from toks[i] on: sel is the index of the first
\* token that is not read as a flag or a flag's value (the token after a
\* "--", when the terminator ends the flags), 0 when there is none; err is
\* the error of the first flag that cannot be read.
RECURSIVE FlagRun(_, _, _)
FlagRun(formal, toks, i) ==
  IF i > Len(toks) THEN [sel |-> 0, err |-> NoErr]
  ELSE IF toks[i] = DoubleMinus
  THEN [sel |-> IF i < Len(toks) THEN i + 1 ELSE 0, err |-> NoErr]
  ELSE IF ~IsFlagShaped(toks[i]) THEN [sel |-> i, err |-> NoErr]
  ELSE
  LET alone == Ref(formal, <<toks[i]>>)
      both == Ref(formal, SubSeq(toks, i, i + 1))
  IN  IF alone.ok THEN FlagRun(formal, toks, i + 1)
      ELSE IF alone.err.kind = "flag needs an argument" /\ i < Len(toks)
      THEN IF both.ok THEN FlagRun(formal, toks, i + 2)
           ELSE [sel |-> 0, err |-> both.err]
      ELSE [sel |-> 0, err |-> alone.err]

\* the number of leading tokens of toks that are not flag-shaped
RECURSIVE LeadingParameters(_)
LeadingParameters(toks) ==
  IF toks = <<>> \/ IsFlagShaped(Head(toks)) THEN 0
  ELSE 1 + LeadingParameters(Tail(toks))

\* the mode's function has returned or is about to call SetParameters
ModeClassified == mrun.pc \in {"setParameters", "returned"}

C17_ParametersFirstRejectsParametersAfterFlags ==
  (mrun.mode = "ModeParametersFirst" /\ ModeClassified /\ ~HasDoubleMinus(mrun.args)) =>
    LET k == LeadingParameters(mrun.args)
        tail == SubSeq(mrun.args, k + 1, Len(mrun.args))
        scan == FlagRun(ModeFormal, tail, 1)
    IN  (/\ tail # <<>>
         /\ scan.err = NoErr
         /\ scan.sel > 1) =>
           /\ mrun.pc = "returned"
           /\ mrun.err.kind = "flags present after parameters"
           /\ mrun.calls = <<>>

(***************************************************************************)
(* Claims about execution errors and help output (SpecDispatch).           *)
(***************************************************************************)
\* the Execute calls of a log that returned an error
FailedExecutes(log) == {i \in CallsOf(log, "Execute") : log[i].result # NoErr}

\* C18: when Execute of the Command or of the resolved SubCommand returns
\* an error, the dispatcher returns it wrapped as *ExecutingCommandError or
\* *ExecutingSubCommandError, IsExecutionError is true of the result, the
\* dispatcher writes nothing and calls nothing more; IsExecutionError is
\* false of nil and of every error of the parsing phase.
C18_ExecutionErrorWrappedAndSilent ==
  /\ \A i \in FailedExecutes(cmd.calls) :
       /\ cmd.pc \in {"returned", "done"}
       /\ cmd.err = Wrapped("*ExecutingCommandError", cmd.calls[i].result)
       /\ cmdIsExecutionError(cmd.err)
       /\ cmd.outErr = <<>>
       /\ i = Len(cmd.calls)
  /\ \A i \in FailedExecutes(run.calls) :
       /\ run.pc \in {"returned", "done"}
       /\ run.err = Wrapped("*ExecutingSubCommandError", run.calls[i].result)
       /\ subIsExecutionError(run.err)
       /\ run.outErr = <<>>
       /\ i = Len(run.calls)
  /\ cmdIsExecutionError(cmd.err) => FailedExecutes(cmd.calls) # {}
  /\ subIsExecutionError(run.err) => FailedExecutes(run.calls) # {}
  /\ (cmd.pc = "done" /\ FailedExecutes(cmd.calls) = {} /\ cmd.err # NilError) =>
       /\ cmd.err.type = "*ParsingCommandError"
       /\ ~cmdIsExecutionError(cmd.err)
       /\ cmd.outErr # <<>>
  /\ (run.pc = "done" /\ FailedExecutes(run.calls) = {} /\ run.err # NilError) =>
       /\ ~subIsExecutionError(run.err)
       /\ run.outErr # <<>>

\* "-a 1 x": the Command's Execute fails; nothing is written
C18_Witness ==
  /\ cmd.pc = "done"
  /\ cmd.args = <<TokA, TokOne, TokX>>
  /\ cmd.cfg.flags
  /\ cmd.err = Wrapped("*ExecutingCommandError", ErrExecute)
  /\ cmd.calls[Len(cmd.calls)] = Call("Execute", "command", <<>>, ErrExecute)
  /\ cmd.outErr = <<>>

\* the segments of an output that are of the given kind
SegsOf(output, kind) == {i \in DOMAIN output : output[i].seg = kind}

\* list holds the elements of the sequence of, in ascending order
IsSortedFrom(list, of) ==
  /\ Len(list) = Len(of)
  /\ {list[i] : i \in DOMAIN list} = {of[i] : i \in DOMAIN of}
  /\ \A i, j \in DOMAIN list : i < j => ~LessString(list[j], list[i])

\* an output that starts with the error's message and goes on with the usage
ErrorThenUsage(output, e) ==
  /\ Len(output) >= 2
  /\ output[1] = Seg("error", e)
  /\ output[2].seg = "usage"
  /\ SegsOf(output, "error") = {1}
  /\ SegsOf(output, "header") = {}

\* C19: a parsing error that is flag.ErrHelp itself is rendered without an
\* error line: the Commander's output starts with the header when the
\* Command has a description (with the usage otherwise), the SubCommander's
\* output for a subcommand starts with the subcommand's name, its sorted
\* aliases and its description, and for the global flags with the usage.
\* Any other parsing error, one with the text of ErrHelp included, is
\* rendered as its message, a blank line, then the usage.
C19_HelpIsToldApartByIdentity ==
  /\ (cmd.pc = "done" /\ cmd.err.type = "*ParsingCommandError") =>
       IF cmd.err.err = ErrHelp
       THEN /\ SegsOf(cmd.outErr, "error") = {}
            /\ cmd.outErr[1].seg = IF cmd.cfg.desc THEN "header" ELSE "usage"
            /\ cmd.cfg.desc => cmd.outErr[2].seg = "usage"
       ELSE ErrorThenUsage(cmd.outErr, cmd.err.err)
  /\ (run.pc = "done" /\ run.err.type = "*ParsingSubCommandError") =>
       IF run.err.err = ErrHelp
       THEN /\ SegsOf(run.outErr, "error") = {}
            /\ run.outErr[1].seg = "header"
            /\ run.outErr[1].what.names[1] = SubCommands[run.sub].name
            /\ IsSortedFrom(Tail(run.outErr[1].what.names), SubCommands[run.sub].aliases)
            /\ run.outErr[1].what.description = SubCommands[run.sub].desc
            /\ run.outErr[2].seg = "usage"
            /\ SegsOf(run.outErr, "header") = {1}
       ELSE ErrorThenUsage(run.outErr, run.err.err)
  /\ (run.pc = "done" /\ run.err.type = "*ParsingGlobalArgsError") =>
       IF run.err.err = ErrHelp
       THEN /\ SegsOf(run.outErr, "error") = {}
            /\ run.outErr[1].seg = "usage"
       ELSE ErrorThenUsage(run.outErr, run.err.err)
  /\ (run.pc = "done" /\ run.err.type \in {"ErrUnsuppliedSubCommand", "UnknownSubCommandError"}) =>
       ErrorThenUsage(run.outErr, run.err.err)

\* "-h" given to a Command with a description: header, then usage
C19_Witness ==
  /\ cmd.pc = "done"
  /\ cmd.args = <<TokH>>
  /\ cmd.cfg.desc
  /\ cmd.err = Wrapped("*ParsingCommandError", ErrHelp)
  /\ cmd.outErr[1].seg = "header"
  /\ cmd.outErr[2].seg = "usage"

(***************************************************************************)
(* Claims about the calls of SetFlags (SpecHelp).                          *)
(***************************************************************************)
\* the calls of SetFlags made on who
SetFlagsOn(log, who) == {i \in CallsOf(log, "SetFlags") : log[i].who = who}

\* C20: in a run of either dispatcher whose argument parsing succeeds (it
\* goes on to Execute), SetFlags of the Command, of GlobalFlags and of each
\* registered SubCommand is called at most once, the runs that dispatch to
\* the help SubCommand included.
C20_SetFlagsOnceWhenParsingSucceeds ==
  /\ CallsOf(cmd.calls, "Execute") # {} =>
       Cardinality(SetFlagsOn(cmd.calls, "command")) <= 1
  /\ CallsOf(run.calls, "Execute") # {} =>
       \A who \in {"global"} \cup SubCommandIds :
         Cardinality(SetFlagsOn(run.calls, who)) <= 1

(***************************************************************************)
(* Claims about the help SubCommand (SpecHelp).                            *)
(***************************************************************************)
\* the calls of SetParameters made on the help SubCommand
HelpSetParametersCalls ==
  {i \in CallsOf(run.calls, "SetParameters") : run.calls[i].who = HelpId}

\* C21: the help SubCommand takes exactly one parameter: with none its
\* SetParameters fails with a RequiredParameterNotSetError, with two or more
\* with ErrTooManyParameters; either is returned as *ParsingSubCommandError,
\* rendered on outErr as the error and the usage of help itself, and the
\* Execute of help is not called.
C21_HelpTakesExactlyOneParameter ==
  \A i \in HelpSetParametersCalls :
    LET n == Len(run.calls[i].params)
        e == run.calls[i].result
    IN  /\ n = 0 => e.kind = "required parameter not set"
        /\ n >= 2 => e.kind = "too many parameters"
        /\ n = 1 => e = NoErr
        /\ e # NoErr =>
             /\ run.err = Wrapped("*ParsingSubCommandError", e)
             /\ CallsOf(run.calls, "Execute") = {}
             /\ run.out = <<>>
             /\ run.pc = "done" =>
                  /\ run.outErr[1] = Seg("error", e)
                  /\ run.outErr[2].seg = "usage"
                  /\ run.outErr[2].what[2] = TokHelp
                  /\ SegsOf(run.outErr, "parameters") # {}

\* "help sub x": two parameters
C21_Witness ==
  /\ run.pc = "done"
  /\ run.args = <<TokHelp, TokSub, TokX>>
  /\ run.sub = HelpId
  /\ run.err = Wrapped("*ParsingSubCommandError", ErrTooManyParameters)
  /\ run.outErr[1] = Seg("error", ErrTooManyParameters)

\* the calls of Execute made on the help SubCommand
HelpExecuteCalls ==
  {i \in CallsOf(run.calls, "Execute") : run.calls[i].who = HelpId}

\* the registered SubCommands that have the key as their name or an alias
Holders(key) ==
  {id \in {regLog[i] : i \in DOMAIN regLog} :
     key = SubCommands[id].name
     \/ \E j \in DOMAIN SubCommands[id].aliases : SubCommands[id].aliases[j] = key}

\* C22: the help SubCommand resolves its one parameter as the dispatcher
\* resolves a name, by name or alias.  A resolved SubCommand has its header
\* and usage written to out, nothing to outErr, and the run returns nil; an
\* unresolved one has the unknown-subcommand error and the general usage
\* written to outErr once, nothing to out, and the run returns
\* *ExecutingSubCommandError wrapping UnknownSubCommandError of the token.
C22_HelpResolvesItsTarget ==
  \A i \in HelpExecuteCalls :
    LET target == run.params.params[1]
        sub == getSubCommand(sc, target)
    IN  /\ Len(run.params.params) = 1
        /\ (sub = NoSub) = (Holders(target) = {})
        /\ sub # NoSub =>
             /\ sub \in Holders(target)
             /\ run.calls[i].result = NoErr
             /\ run.err = NilError
             /\ run.outErr = <<>>
             /\ run.out[1].seg = "header"
             /\ run.out[1].what.names[1] = SubCommands[sub].name
             /\ run.out[2].seg = "usage"
             /\ run.out[2].what[2] = SubCommands[sub].name
             /\ SegsOf(run.out, "error") = {}
        /\ sub = NoSub =>
             /\ run.out = <<>>
             /\ run.err = Wrapped("*ExecutingSubCommandError",
                                  UnknownSubCommandError(target))
             /\ run.outErr[1] = Seg("error", Err("unknown sub_command", target, <<>>))
             /\ run.outErr[2].seg = "usage"
             /\ \E j \in DOMAIN run.outErr[2].what : run.outErr[2].what[j] = "sub_command"
             /\ SegsOf(run.outErr, "error") = {1}
             /\ SegsOf(run.outErr, "usage") = {2}

\* "help s": the alias of the SubCommand named sub
C22_Witness ==
  /\ run.pc = "done"
  /\ run.args = <<TokHelp, TokAlias>>
  /\ run.err = NilError
  /\ run.out[1].seg = "header"
  /\ run.out[1].what.names = <<TokSub, TokAlias>>
  /\ run.outErr = <<>>

(***************************************************************************)
(* Claims about the sub_commands listing (SpecRegistry, SpecHelp).         *)
(***************************************************************************)
\* the sub_commands listings written so far, on out and on outErr
Listings ==
  {run.out[i].what : i \in SegsOf(run.out, "sub_commands")}
  \cup {run.outErr[i].what : i \in SegsOf(run.outErr, "sub_commands")}

\* the SubCommand last registered under the name
LastNamed(name) ==
  LET uses == {i \in DOMAIN regLog : SubCommands[regLog[i]].name = name}
  IN  regLog[CHOOSE i \in uses : \A j \in uses : j <= i]

\* the names registered
RegisteredNames == {SubCommands[regLog[i]].name : i \in DOMAIN regLog}

\* C23: a sub_commands listing, from the list SubCommand or in the general
\* usage, has one line for each registered name, the lines ascending by name
\* whatever the order of the Register calls; on a line the aliases of the
\* SubCommand follow its name in sorted order, and the SubCommand's own
\* slice of aliases is left in the order it was given.
C23_ListingSortedByName ==
  \A lines \in Listings :
    /\ {lines[i].entry[1] : i \in DOMAIN lines} = RegisteredNames
    /\ Len(lines) = Cardinality(RegisteredNames)
    /\ \A i, j \in DOMAIN lines : i < j => LessString(lines[i].entry[1], lines[j].entry[1])
    /\ \A i \in DOMAIN lines :
         LET id == LastNamed(lines[i].entry[1]) IN
         /\ lines[i].synopsis = id
         /\ IsSortedFrom(Tail(lines[i].entry), SubCommands[id].aliases)
         /\ lines[i].aliases = SubCommands[id].aliases

\* x registered before sub, no arguments: the line of sub comes first, the
\* line of x reads x, y, z
C23_Witness ==
  /\ run.pc = "done"
  /\ regLog = <<"E", "A">>
  /\ run.args = <<>>
  /\ \E lines \in Listings :
       /\ Len(lines) = 2
       /\ lines[1].entry = <<TokSub, TokAlias>>
       /\ lines[2].entry = <<TokX, TokY, TokZ>>
       /\ lines[2].aliases = <<TokZ, TokY>>

\* the bytes of an entry as written: its strings and a ", " between them
RECURSIVE SumLen(_)
SumLen(list) == IF list = <<>> THEN 0 ELSE Len(Head(list)) + SumLen(Tail(list))

EntryWidth(entry) == SumLen(entry) + 2 * (Len(entry) - 1)

\* C24: in a sub_commands listing every entry is padded to one column
\* width, max(16, L + 4) with L the length of the longest entry, so that no
\* padding is negative and at least 4 spaces stand before each synopsis.
C24_ListingPaddedToCommonWidth ==
  \A lines \in Listings :
    LET widths == {EntryWidth(lines[i].entry) : i \in DOMAIN lines}
        L == CHOOSE n \in widths : \A k \in widths : k <= n
        column == IF L + 4 > 16 THEN L + 4 ELSE 16
    IN  \A i \in DOMAIN lines :
          /\ EntryWidth(lines[i].entry) + lines[i].pad = column
          /\ lines[i].pad >= 4

\* the name of 13 bytes is registered: the column is 17 wide
C24_Witness ==
  /\ run.pc = "done"
  /\ regLog = <<"F", "A">>
  /\ \E lines \in Listings :
       /\ Len(lines) = 2
       /\ lines[1].entry = <<TokSub, TokAlias>>
       /\ lines[1].pad = 11
       /\ lines[2].entry = <<TokLong>>
       /\ lines[2].pad = 4

(***************************************************************************)
(* Further claims about ParseArgumentsInterspersed (SpecParse).            *)
(***************************************************************************)
\* C25: on no tokens the call returns an empty, non-nil params and no error
\* without calling Parse; on the one token "" it returns a params holding
\* that empty string and no error, no flag being set.
C25_EmptyListAndEmptyToken ==
  /\ (ppc = "done" /\ in0 = <<>>) =>
       /\ ret = [params |-> <<>>, isNil |-> FALSE]
       /\ pst.err = NoErr
       /\ nParse = 0
  /\ (ppc = "done" /\ in0 = <<TokEmpty>>) =>
       /\ ret = [params |-> <<TokEmpty>>, isNil |-> FALSE]
       /\ pst.err = NoErr
       /\ pst.f.actual = {}
       /\ pst.args = <<>>

\* the one token ""
C25_Witness ==
  /\ ppc = "done"
  /\ in0 = <<TokEmpty>>
  /\ nParse = 1
  /\ ret.params = <<TokEmpty>>

AliasHolders(key) ==
  {id \in {regLog[i] : i \in DOMAIN regLog} :
     \E j \in DOMAIN SubCommands[id].aliases : SubCommands[id].aliases[j] = key}

C28_RegisterNeverRemoves ==
  /\ [][/\ DOMAIN sc.names \subseteq DOMAIN sc'.names
        /\ DOMAIN sc.aliases \subseteq DOMAIN sc'.aliases
        /\ regLog' = regLog => sc' = sc
        /\ regLog' # regLog =>
             /\ Len(regLog') = Len(regLog) + 1
             /\ \A k \in (DOMAIN sc.names \cup DOMAIN sc.aliases)
                           \ KeysOf(regLog'[Len(regLog')]) :
                  getSubCommand(sc', k) = getSubCommand(sc, k)]_vars
  /\ [](\A i, j \in DOMAIN regLog :
          (/\ i < j
           /\ regLog[i] = "A"
           /\ regLog[j] = "B"
           /\ \A m \in DOMAIN regLog : m > i => TokAlias \notin KeysOf(regLog[m])) =>
             /\ getSubCommand(sc, TokAlias) = "A"
             /\ (\A m \in DOMAIN regLog : m > j => SubCommands[regLog[m]].name # TokSub) =>
                  \A lines \in Listings : \A n \in DOMAIN lines : lines[n].synopsis # "A")

\* A then B registered, then a run given s: A is executed
C28_Witness ==
  /\ regLog = <<"A", "B">>
  /\ run.pc = "returned"
  /\ run.args = <<TokAlias>>
  /\ run.sub = "A"
  /\ CallsOf(run.calls, "Execute") # {}

(***************************************************************************)
(* Termination of ParseArgumentsInterspersed (SpecParseFair).              *)
(***************************************************************************)
\* C29: the loop of ParseArgumentsInterspersed ends on every token list:
\* an iteration calls Parse once and then holds an error, or has no token
\* left, or has fewer tokens left than before; Parse is called at most as
\* many times as there are tokens; what Parse leaves is never longer than
\* what it was given, so the index didStopAfterDoubleMinus reads behind its
\* guard lies within the arguments; and the call returns.
C29_LoopTerminates ==
  /\ [][pst' # pst =>
          /\ nParse' = nParse + 1
          /\ \/ pst'.err # NoErr
             \/ pst'.args = <<>>
             \/ Len(pst'.args) < Len(pst.args)]_vars
  /\ [](nParse <= Len(in0))
  /\ [](loopCond(pst) =>
          LET remaining == Parse(pst.f, pst.args).f.args IN
          /\ Len(remaining) <= Len(pst.args)
          /\ Len(pst.args) > Len(remaining) =>
               (Len(pst.args) - Len(remaining)) \in DOMAIN pst.args)
  /\ <>(ppc = "done")

\* three parameters: Parse is called three times, once for each token
C29_Witness ==
  /\ ppc = "done"
  /\ in0 = <<TokX, TokX, TokX>>
  /\ nParse = 3
  /\ pst.args = <<>>

(***************************************************************************)
(* Errors of ParametersFirst mode (SpecModes).                             *)
(***************************************************************************)
\* the tokens of a list with ", " between them, built from the right
RECURSIVE CommaList(_)
CommaList(list) ==
  IF Len(list) <= 1 THEN (IF list = <<>> THEN <<>> ELSE list[1])
  ELSE CommaList(SubSeq(list, 1, Len(list) - 1)) \o <<",", " ">> \o list[Len(list)]

\* C30: in ParametersFirst mode, once the loop is left: a help request of
\* f.Parse is returned as flag.ErrHelp itself; any other error of f.Parse is
\* returned as a FlagsAfterParametersError holding that error's text; with
\* no error, tokens left over are returned as a FlagsAfterParametersError
\* holding them joined by ", "; in each of the three cases SetParameters is
\* not called, and in no other case is it left out.
C30_ParametersFirstErrors ==
  (mrun.mode = "ModeParametersFirst" /\ mrun.pc \in {"returned", "done"}) =>
    LET parseErr == mrun.st.err
        left == mrun.st.args
        called == CallsOf(mrun.calls, "SetParameters")
    IN  /\ parseErr = ErrHelp => (mrun.err = ErrHelp /\ called = {})
        /\ parseErr \notin {NoErr, ErrHelp} =>
             /\ mrun.err = [kind |-> "flags present after parameters", name |-> <<>>,
                            value |-> <<parseErr.kind, parseErr.name, parseErr.value>>]
             /\ called = {}
        /\ (parseErr = NoErr /\ left # <<>>) =>
             /\ mrun.err = [kind |-> "flags present after parameters", name |-> <<>>,
                            value |-> CommaList(left)]
             /\ called = {}
        /\ (parseErr = NoErr /\ left = <<>>) => Cardinality(called) = 1

\* "-b x x x": b is set, the first x becomes a parameter and the loop is
\* left with two tokens, which the error lists
C30_Witness ==
  /\ mrun.mode = "ModeParametersFirst"
  /\ mrun.pc = "done"
  /\ mrun.args = <<TokB, TokX, TokX, TokX>>
  /\ mrun.err = FlagsAfterParametersError(<<"x", ",", " ", "x">>)
  /\ mrun.calls = <<>>

====
